---- MODULE Spec2Model ----
(***************************************************************************)
(* State-machine model of the IoT protocol simulator's core components:    *)
(* the automation rules engine (bridge/rules.py), the Modbus TCP server    *)
(* (protocols/modbus.py), the MQTT broker (protocols/mqtt.py), the traffic *)
(* replayer (tools/replayer.py), the packet capturer (tools/capturer.py),  *)
(* the in-memory event bus (bridge/event_bus.py) and the bridge engine     *)
(* (bridge/engine.py).  Each component has its own variables, actions and  *)
(* specification; the components do not call each other in the source.     *)
(***************************************************************************)
EXTENDS Integers, Sequences, FiniteSets, TLC

\* ---------------------------------------------------------------- state

\* rules engine (bridge/rules.py)
VARIABLES
    rules,           \* RulesEngine.rules: insertion-ordered dict, as a sequence of Rule records
    rules_running,   \* RulesEngine._running
    now,             \* datetime.utcnow(), in whole seconds
    rstack,          \* the nested action executions in progress (innermost last)
    evalq,           \* evaluate_data: names of the rules still to consider, in loop order
    evaldata,        \* evaluate_data: the data object of the call in progress
    prev_triggered,  \* history: per rule name, the time of the firing before the last one
    rules_errors,    \* RulesEngine._stats["errors"]
    last_eval        \* history: the last rule.evaluate call of evaluate_data since the
                     \*   last call from outside: the rule, whether it was under
                     \*   cooldown, whether its conditions were evaluated

rulesVars == <<rules, rules_running, now, rstack, evalq, evaldata, prev_triggered, rules_errors,
               last_eval>>

\* Modbus TCP server and data generator (protocols/modbus.py)
VARIABLES
    devices,       \* ModbusTCPServer.devices: unit id -> holding_registers dict
    gen_attached,  \* a started ModbusDataGenerator holds the registered device
    mb_last,       \* the last request processed and the response PDU it got
    w_client,      \* history: address -> value of the last FC06 write to the registered
                   \*   device since which no other client write to it was processed
    w_any,         \* history: the same, also forgotten when the data generator
                   \*   stores to the register
    dev_coils,     \* unit id -> coils dict of the device
    dev_inputs     \* unit id -> discrete_inputs dict of the device

modbusVars == <<devices, gen_attached, mb_last, w_client, w_any, dev_coils, dev_inputs>>

\* MQTT broker (protocols/mqtt.py)
VARIABLES
    mq_running,      \* MQTTBroker.running
    mq_conns,        \* the open connections, by the client_id _handle_client drew for them
    mq_clients,      \* MQTTBroker.clients: client id -> subscriptions (filter -> QoS)
    mq_active,       \* MQTTBroker._stats["active_connections"]
    mq_received,     \* MQTTBroker._stats["messages_received"]
    mq_written,      \* per connection, the first byte of each packet written to it
    mq_subscribed,   \* history: per connection, the filters it sent in SUBSCRIBE at QoS 0
                     \*   after its CONNECT
    mq_connected,    \* history: the connections that have sent CONNECT
    mq_expected,     \* history: per connection, the PUBLISH packets received since on
                     \*   a topic matching one of those filters
    mq_session       \* history: per connection, the client id of its last CONNECT,
                     \*   "" before any

mqttVars == <<mq_running, mq_conns, mq_clients, mq_active, mq_received, mq_written,
              mq_subscribed, mq_connected, mq_expected, mq_session>>

\* traffic replayer (tools/replayer.py)
VARIABLES
    rp_session,      \* TrafficReplayer._replay_session: its number of packets, 0 for None
    rp_replaying,    \* TrafficReplayer._replaying
    rp_current,      \* TrafficReplayer._current_packet
    rp_tasks,        \* the asyncio tasks created for _replay_loop, in creation order
    rp_task,         \* TrafficReplayer._task: index into rp_tasks, 0 for None
    rp_active,       \* the task the event loop is running now, 0 when it is idle
    rp_emitted,      \* history: the indices on_packet was called with, in order
    rp_completed,    \* history: the number of calls of on_complete
    rp_paused,       \* history: pause_replay was called and no start, resume or stop since
    rp_pass          \* history: the indices on_packet was called with since
                     \*   _current_packet was last reset to 0

replayerVars == <<rp_session, rp_replaying, rp_current, rp_tasks, rp_task, rp_active,
                  rp_emitted, rp_completed, rp_paused, rp_pass>>

\* packet capturer (tools/capturer.py)
VARIABLES
    cap_max,         \* PacketCapturer.max_packets
    cap_packets,     \* PacketCapturer.packets
    cap_running,     \* PacketCapturer._running
    cap_counter,     \* PacketCapturer._packet_counter
    cap_filters,     \* PacketCapturer.filters
    cap_total,       \* PacketCapturer._stats["total_captured"]
    cap_stored       \* history: the packets appended since the last clear_capture

capturerVars == <<cap_max, cap_packets, cap_running, cap_counter, cap_filters,
                  cap_total, cap_stored>>

\* in-memory event bus (bridge/event_bus.py)
VARIABLES
    eb_subscribers,  \* EventBusBase.subscribers: the dict as its (key, callbacks) items
                     \*   in insertion order
    eb_events,       \* InMemoryEventBus._events, as the event types
    eb_delivering,   \* a call of publish is inside _notify_subscribers
    eb_event,        \* the event type being delivered
    eb_k,            \* position of the loop over self.subscribers.items()
    eb_j,            \* position of the loop over callbacks
    eb_raising,      \* history: the handlers that raised Exception when called with
                     \*   this event
    eb_raised,       \* the last call of publish ended with an exception
    eb_invoked,      \* history: the handlers called for this event, in order
    eb_sublog,       \* history: the subscribe calls in order, each with whether the
                     \*   subscription is still in force
    eb_expected,     \* history: the subscriptions to the event's type when publish was
                     \*   called, by descending subscribe priority, then subscribe order
    eb_used,         \* the size of self.subscribers when the loop over its items began
    eb_touched       \* history: the handlers that, during this delivery, called
                     \*   subscribe or unsubscribe or were the callback given to it

eventBusVars == <<eb_subscribers, eb_events, eb_delivering, eb_event, eb_k, eb_j,
                  eb_raising, eb_raised, eb_invoked, eb_sublog, eb_expected, eb_used,
                  eb_touched>>

\* bridge engine (bridge/engine.py)
VARIABLES
    br_bridges,      \* BridgeEngine.bridges: the rules in dict insertion order
    br_adapters,     \* the keys of BridgeEngine.protocol_adapters
    br_queue,        \* BridgeEngine.message_queue
    br_running,      \* BridgeEngine.running
    br_stats,        \* BridgeEngine._stats
    br_published,    \* history: the number of calls of publish
    br_last          \* history: the last message routed, with the calls of
                     \*   adapter.publish made for it, whether routing raised, the
                     \*   mappings whose transform had a step that raised, and the
                     \*   growth of the errors statistic

bridgeVars == <<br_bridges, br_adapters, br_queue, br_running, br_stats, br_published,
                br_last>>

\* calls of the topic match of the bridge engine (bridge/engine.py)
VARIABLES
    tm_called,       \* _topic_matches has been called
    tm_topic,        \* its argument topic, as topic.split('/')
    tm_pattern,      \* its argument pattern, as pattern.split('/')
    tm_result,       \* what it returned
    tm_mapping       \* what _matches_mapping returned for this topic and a mapping
                     \*   whose source_topic is the pattern

topicVars == <<tm_called, tm_topic, tm_pattern, tm_result, tm_mapping>>

\* one TCP connection to the Modbus server (protocols/modbus.py, _handle_client)
VARIABLES
    mc_open,     \* the connection is accepted and its _handle_client loop is running
    mc_buf,      \* the bytes the client sent that the server has not read yet
    mc_eof,      \* the client closed its side of the connection
    mc_header,   \* the MBAP header of the loop iteration in progress, <<>> between iterations
    mc_sent,     \* history: the request frames the client sent, in order
    mc_out       \* history: the response frames written, in order, each with the
                 \*   request PDU it was computed from

mbConnVars == <<mc_open, mc_buf, mc_eof, mc_header, mc_sent, mc_out>>

\* one bit read of the Modbus server (protocols/modbus.py, _read_coils, _read_discrete_inputs)
VARIABLES
    bit_called,    \* a bit read is in progress: its response is computed
    bit_fc,        \* the function code of the request: 1 coils, 2 discrete inputs
    bit_bank,      \* device.coils or device.discrete_inputs, as read by the request
    bit_start,     \* start_addr of the request
    bit_quantity,  \* quantity of the request
    bit_resp       \* the response PDU

bitReadVars == <<bit_called, bit_fc, bit_bank, bit_start, bit_quantity, bit_resp>>

\* CoAP server (protocols/coap.py)
VARIABLES
    coap_running,    \* CoAPServer.running
    coap_observers,  \* path -> resource.observers, a list of (token, addr) pairs
    coap_notifier,   \* the _notify_observers task is alive
    coap_raised,     \* the last _process_request call ended with an exception
    coap_notified    \* history: the notifications created, as (path, token, addr)

coapVars == <<coap_running, coap_observers, coap_notifier, coap_raised, coap_notified>>

\* fault injector (tools/fault_injector.py)
VARIABLES
    fi_faults,    \* FaultInjector.faults: fault id -> Fault
    fi_active,    \* FaultInjector._active_faults
    fi_running,   \* FaultInjector._running
    fi_last       \* the last should_modify_packet call: the fault it found and the
                  \*   (decision, details) pair it returned

faultVars == <<fi_faults, fi_active, fi_running, fi_last>>

\* load tester (tools/load_tester.py)
VARIABLES
    lt_running,   \* LoadTester._running
    lt_phase,     \* where start_test is: "idle" not called, "schedule" awaiting the
                  \*   schedule of the test type, "returned", "raised"
    lt_users,     \* len(LoadTester._users): the virtual user tasks alive
    lt_times,     \* _current_test.response_times
    lt_ok,        \* _current_test.successful_requests
    lt_failed,    \* _current_test.failed_requests
    lt_result,    \* of _current_test: total_requests, end_time and the metrics
    lt_tasks,     \* the _virtual_user tasks created and neither cancelled nor returned
    lt_config,    \* the LoadTestConfig given to start_test
    lt_step       \* the sleeps of the schedule that have passed

loadTestVars == <<lt_running, lt_phase, lt_users, lt_times, lt_ok, lt_failed, lt_result,
                  lt_tasks, lt_config, lt_step>>

\* BACnet/IP server (protocols/bacnet.py)
VARIABLES
    bn_devices,   \* BACnetIPRouter.devices: device_id -> vendor_identifier of the device
    bn_running,   \* BACnetIPRouter.running
    bn_last       \* the last call of _handle_who_is: the request and its outcome,
                  \*   "i_am" with the response, "none" for None, "raised"

bacnetVars == <<bn_devices, bn_running, bn_last>>

\* one call of Condition.evaluate (bridge/rules.py)
VARIABLES
    ce_called,    \* Condition.evaluate has been called and has returned
    ce_op,        \* Condition.operator, by its value
    ce_field,     \* field_value: what the dotted path resolved to, None when missing
    ce_value,     \* Condition.value: a list for in and not_in, else a scalar
    ce_second,    \* Condition.second_value
    ce_result     \* what evaluate returned

condEvalVars == <<ce_called, ce_op, ce_field, ce_value, ce_second, ce_result>>

\* ---- raw TCP server (protocols/tcp.py)
VARIABLES
    tcp_running,       \* TCPServer.running
    tcp_connections,   \* the keys of TCPServer.connections
    tcp_active,        \* TCPServer._stats["active_connections"]
    tcp_counter,       \* TCPServer._connection_counter
    tcp_handlers       \* the connections whose _handle_client is in its reading loop

tcpVars == <<tcp_running, tcp_connections, tcp_active, tcp_counter, tcp_handlers>>

vars == <<rulesVars, modbusVars, mqttVars, replayerVars, capturerVars, eventBusVars, bridgeVars, topicVars, mbConnVars, bitReadVars, coapVars, faultVars, loadTestVars, bacnetVars, condEvalVars, tcpVars>>

\* what the actions of one component leave alone
notRulesVars == <<modbusVars, mqttVars, replayerVars, capturerVars, eventBusVars, bridgeVars, topicVars, mbConnVars, bitReadVars, coapVars, faultVars, loadTestVars, bacnetVars, condEvalVars, tcpVars>>
notModbusVars == <<rulesVars, mqttVars, replayerVars, capturerVars, eventBusVars, bridgeVars, topicVars, mbConnVars, bitReadVars, coapVars, faultVars, loadTestVars, bacnetVars, condEvalVars, tcpVars>>
notMqttVars == <<rulesVars, modbusVars, replayerVars, capturerVars, eventBusVars, bridgeVars, topicVars, mbConnVars, bitReadVars, coapVars, faultVars, loadTestVars, bacnetVars, condEvalVars, tcpVars>>
notReplayerVars == <<rulesVars, modbusVars, mqttVars, capturerVars, eventBusVars, bridgeVars, topicVars, mbConnVars, bitReadVars, coapVars, faultVars, loadTestVars, bacnetVars, condEvalVars, tcpVars>>
notCapturerVars == <<rulesVars, modbusVars, mqttVars, replayerVars, eventBusVars, bridgeVars, topicVars, mbConnVars, bitReadVars, coapVars, faultVars, loadTestVars, bacnetVars, condEvalVars, tcpVars>>
notEventBusVars == <<rulesVars, modbusVars, mqttVars, replayerVars, capturerVars, bridgeVars, topicVars, mbConnVars, bitReadVars, coapVars, faultVars, loadTestVars, bacnetVars, condEvalVars, tcpVars>>
notBridgeVars == <<rulesVars, modbusVars, mqttVars, replayerVars, capturerVars, eventBusVars, topicVars, mbConnVars, bitReadVars, coapVars, faultVars, loadTestVars, bacnetVars, condEvalVars, tcpVars>>
notTopicVars == <<rulesVars, modbusVars, mqttVars, replayerVars, capturerVars, eventBusVars, bridgeVars, mbConnVars, bitReadVars, coapVars, faultVars, loadTestVars, bacnetVars, condEvalVars, tcpVars>>
notMbConnVars == <<rulesVars, modbusVars, mqttVars, replayerVars, capturerVars, eventBusVars, bridgeVars, topicVars, bitReadVars, coapVars, faultVars, loadTestVars, bacnetVars, condEvalVars, tcpVars>>
notBitReadVars == <<rulesVars, modbusVars, mqttVars, replayerVars, capturerVars, eventBusVars, bridgeVars, topicVars, mbConnVars, coapVars, faultVars, loadTestVars, bacnetVars, condEvalVars, tcpVars>>
notCoapVars == <<rulesVars, modbusVars, mqttVars, replayerVars, capturerVars, eventBusVars, bridgeVars, topicVars, mbConnVars, bitReadVars, faultVars, loadTestVars, bacnetVars, condEvalVars, tcpVars>>
notFaultVars == <<rulesVars, modbusVars, mqttVars, replayerVars, capturerVars, eventBusVars, bridgeVars, topicVars, mbConnVars, bitReadVars, coapVars, loadTestVars, bacnetVars, condEvalVars, tcpVars>>
notLoadTestVars == <<rulesVars, modbusVars, mqttVars, replayerVars, capturerVars, eventBusVars, bridgeVars, topicVars, mbConnVars, bitReadVars, coapVars, faultVars, bacnetVars, condEvalVars, tcpVars>>
notBacnetVars == <<rulesVars, modbusVars, mqttVars, replayerVars, capturerVars, eventBusVars, bridgeVars, topicVars, mbConnVars, bitReadVars, coapVars, faultVars, loadTestVars, condEvalVars, tcpVars>>
notCondEvalVars == <<rulesVars, modbusVars, mqttVars, replayerVars, capturerVars, eventBusVars, bridgeVars, topicVars, mbConnVars, bitReadVars, coapVars, faultVars, loadTestVars, bacnetVars, tcpVars>>
notTcpVars == <<rulesVars, modbusVars, mqttVars, replayerVars, capturerVars, eventBusVars, bridgeVars, topicVars, mbConnVars, bitReadVars, coapVars, faultVars, loadTestVars, bacnetVars, condEvalVars>>

\* ---------------------------------------------------------------- helpers

\* None of Optional[datetime] fields, as a time stamp
NoTime == -1

Range(s) == {s[i] : i \in 1..Len(s)}

\* ==========================================================================
\* Rules engine (bridge/rules.py)
\* ==========================================================================


\* bounds of the rules model
MaxTime == 4
MaxCount == 3
MaxNesting == 18

RuleNames == {"a", "b"}

\* Action records: type, enabled, and of params the keys "rule" and "abort_on_error"
LogAction == [type |-> "log", rule |-> "", enabled |-> TRUE, abort_on_error |-> FALSE]
DelayAction == [type |-> "delay", rule |-> "", enabled |-> TRUE, abort_on_error |-> FALSE]
TriggerAction(n) == [type |-> "trigger_rule", rule |-> n, enabled |-> TRUE, abort_on_error |-> FALSE]
WebhookAction(abort) == [type |-> "webhook", rule |-> "", enabled |-> TRUE, abort_on_error |-> abort]

\* data objects handed to evaluate_data: dicts with an optional integer field
NoData == [f \in {} |-> 0]
DataSet == {NoData, [f \in {"value"} |-> 1], [f \in {"value"} |-> 9]}

Cond(f, op, v) == [field |-> f, operator |-> op, value |-> v]

NewRule(n, p, cd, cs, as) ==
    [name |-> n, enabled |-> TRUE, priority |-> p, cooldown_seconds |-> cd,
     conditions |-> cs, condition_logic |-> "AND", actions |-> as,
     last_triggered |-> NoTime, trigger_count |-> 0]

\* the rules a client may add
RuleCatalogue ==
    { NewRule("a", 1, 2, <<>>, <<TriggerAction("b")>>),
      NewRule("a", 0, 0, <<Cond("value", "gt", 5)>>, <<WebhookAction(TRUE), LogAction>>),
      NewRule("b", 0, 2, <<Cond("value", "gt", 5)>>, <<DelayAction, LogAction>>),
      NewRule("b", 1, 2, <<>>, <<TriggerAction("b")>>) }

\* Condition.evaluate: the field is looked up in the data dict (None when absent);
\* an ordering comparison with None raises TypeError, which is caught and gives False;
\* operators without a branch fall through to False
ConditionEvaluate(c, data) ==
    LET present == c.field \in DOMAIN data
        fv == data[c.field]
    IN CASE c.operator = "eq"  -> present /\ fv = c.value
         [] c.operator = "ne"  -> ~present \/ fv # c.value
         [] c.operator = "gt"  -> present /\ fv > c.value
         [] c.operator = "lt"  -> present /\ fv < c.value
         [] c.operator = "gte" -> present /\ fv >= c.value
         [] c.operator = "lte" -> present /\ fv <= c.value
         [] c.operator = "is_null" -> ~present
         [] c.operator = "is_not_null" -> present
         [] OTHER -> FALSE

\* the cooldown test of Rule.evaluate
UnderCooldown(r, t) ==
    /\ r.last_triggered # NoTime
    /\ r.cooldown_seconds > 0
    /\ t - r.last_triggered < r.cooldown_seconds

\* no rule.evaluate call of evaluate_data yet
NoEval == [rule |-> "", cooldown |-> FALSE, conditions |-> FALSE]

\* Rule.evaluate reaches all(...) or any(...): Condition.evaluate is called
ConditionsEvaluated(r, t) ==
    /\ r.enabled
    /\ ~UnderCooldown(r, t)
    /\ Len(r.conditions) > 0
    /\ r.condition_logic \in {"AND", "OR"}

\* a variant that evaluates the conditions without the cooldown test
RuleEvaluateAlways(r, data, t) ==
    r.enabled /\ \A i \in 1..Len(r.conditions) : ConditionEvaluate(r.conditions[i], data)

\* Rule.evaluate
RuleEvaluate(r, data, t) ==
    IF ~r.enabled THEN FALSE
    ELSE IF UnderCooldown(r, t) THEN FALSE
    ELSE IF Len(r.conditions) = 0 THEN TRUE
    ELSE IF r.condition_logic = "AND"
         THEN \A i \in 1..Len(r.conditions) : ConditionEvaluate(r.conditions[i], data)
    ELSE IF r.condition_logic = "OR"
         THEN \E i \in 1..Len(r.conditions) : ConditionEvaluate(r.conditions[i], data)
    ELSE FALSE

RuleIndex(rs, n) == IF \E i \in 1..Len(rs) : rs[i].name = n
                    THEN CHOOSE i \in 1..Len(rs) : rs[i].name = n
                    ELSE 0

\* sorted(self.rules.items(), key=lambda x: -x[1].priority): a stable sort
RECURSIVE InsertByPriority(_, _)
\* a variant that puts r first, whatever the priorities
InsertFirst(sorted, r) == <<r>> \o sorted

InsertByPriority(sorted, r) ==
    IF sorted = <<>> THEN <<r>>
    ELSE IF Head(sorted).priority >= r.priority
         THEN <<Head(sorted)>> \o InsertByPriority(Tail(sorted), r)
         ELSE <<r>> \o sorted

RECURSIVE SortedRules(_)
SortedRules(rs) ==
    IF rs = <<>> THEN <<>>
    ELSE InsertByPriority(SortedRules(SubSeq(rs, 1, Len(rs) - 1)), rs[Len(rs)])

RulesIdle == rstack = <<>> /\ evalq = <<>>

\* the frames whose action list is exhausted return to their callers
RECURSIVE Unwind(_)
Unwind(st) ==
    IF st = <<>> THEN <<>>
    ELSE IF st[Len(st)].ai > Len(st[Len(st)].actions)
         THEN Unwind(SubSeq(st, 1, Len(st) - 1))
         ELSE st

\* rule.trigger_count += 1; rule.last_triggered = datetime.utcnow()
MarkTriggered(rs, i, t) ==
    [rs EXCEPT ![i].trigger_count = @ + 1, ![i].last_triggered = t]

\* the rule at index i fires: its counters are stamped and its actions start.
\* st is the stack of the rules whose trigger_rule action led here, empty for a
\* rule fired by evaluate_data or by a call of trigger. The model follows a rule
\* for MaxCount firings from outside and a chain of trigger_rule actions down to
\* MaxNesting frames; the code has neither limit
Fire(i, st) ==
    /\ rules[i].trigger_count < MaxCount + Len(st)
    /\ Len(st) < MaxNesting
    /\ rules' = MarkTriggered(rules, i, now)
    /\ prev_triggered' = [prev_triggered EXCEPT ![rules[i].name] = rules[i].last_triggered]
    /\ rstack' = Unwind(st \o <<[rule |-> rules[i].name, actions |-> rules[i].actions, ai |-> 1]>>)

\* RulesEngine.add_rule: self.rules[rule.name] = rule
AddRule(r) ==
    /\ RulesIdle
    /\ rules' = IF RuleIndex(rules, r.name) = 0
                THEN Append(rules, r)
                ELSE [rules EXCEPT ![RuleIndex(rules, r.name)] = r]
    /\ prev_triggered' = [prev_triggered EXCEPT ![r.name] = NoTime]
    /\ UNCHANGED <<rules_running, now, rstack, evalq, evaldata>>
    /\ last_eval' = NoEval
    /\ UNCHANGED rules_errors
    /\ UNCHANGED notRulesVars

\* RulesEngine.remove_rule
RemoveRule(n) ==
    /\ RulesIdle
    /\ rules' = IF RuleIndex(rules, n) = 0 THEN rules
                ELSE SubSeq(rules, 1, RuleIndex(rules, n) - 1)
                     \o SubSeq(rules, RuleIndex(rules, n) + 1, Len(rules))
    /\ prev_triggered' = [prev_triggered EXCEPT ![n] = NoTime]
    /\ UNCHANGED <<rules_running, now, rstack, evalq, evaldata>>
    /\ last_eval' = NoEval
    /\ UNCHANGED rules_errors
    /\ UNCHANGED notRulesVars

\* RulesEngine.start
RulesStart ==
    /\ RulesIdle
    /\ rules_running' = TRUE
    /\ UNCHANGED <<rules, now, rstack, evalq, evaldata, prev_triggered>>
    /\ last_eval' = NoEval
    /\ UNCHANGED rules_errors
    /\ UNCHANGED notRulesVars

\* RulesEngine.stop
RulesStop ==
    /\ RulesIdle
    /\ rules_running' = FALSE
    /\ UNCHANGED <<rules, now, rstack, evalq, evaldata, prev_triggered>>
    /\ last_eval' = NoEval
    /\ UNCHANGED rules_errors
    /\ UNCHANGED notRulesVars

\* the clock advances between calls
Tick ==
    /\ RulesIdle
    /\ now < MaxTime
    /\ now' = now + 1
    /\ UNCHANGED <<rules, rules_running, rstack, evalq, evaldata, prev_triggered>>
    /\ last_eval' = NoEval
    /\ UNCHANGED rules_errors
    /\ UNCHANGED notRulesVars

\* RulesEngine.evaluate_data, up to the loop over the sorted rules
EvaluateData(data) ==
    /\ RulesIdle
    /\ evalq' = IF rules_running
                THEN [i \in 1..Len(rules) |-> SortedRules(rules)[i].name]
                ELSE <<>>
    /\ evaldata' = IF rules_running /\ rules # <<>> THEN data ELSE NoData
    /\ UNCHANGED <<rules, rules_running, now, rstack, prev_triggered>>
    /\ last_eval' = NoEval
    /\ UNCHANGED rules_errors
    /\ UNCHANGED notRulesVars

\* one iteration of the loop of evaluate_data: rule.evaluate(data), and on a match
\* the rule fires
EvalStep ==
    /\ rstack = <<>>
    /\ evalq # <<>>
    /\ LET i == RuleIndex(rules, Head(evalq))
       IN IF RuleEvaluate(rules[i], evaldata, now)
          THEN Fire(i, <<>>)
          ELSE UNCHANGED <<rules, rstack, prev_triggered>>
    /\ last_eval' = LET r == rules[RuleIndex(rules, Head(evalq))]
                    IN [rule |-> r.name,
                        cooldown |-> r.enabled /\ UnderCooldown(r, now),
                        conditions |-> ConditionsEvaluated(r, now)]
    /\ evalq' = Tail(evalq)
    /\ evaldata' = IF Tail(evalq) = <<>> THEN NoData ELSE evaldata
    /\ UNCHANGED <<rules_running, now>>
    /\ UNCHANGED rules_errors
    /\ UNCHANGED notRulesVars

\* RulesEngine.trigger: no cooldown test, only existence and the enabled flag
TriggerFires(rs, n) == RuleIndex(rs, n) # 0 /\ rs[RuleIndex(rs, n)].enabled

\* RulesEngine.trigger called by a client
Trigger(n) ==
    /\ RulesIdle
    /\ IF TriggerFires(rules, n)
       THEN Fire(RuleIndex(rules, n), <<>>)
       ELSE UNCHANGED <<rules, rstack, prev_triggered>>
    /\ UNCHANGED <<rules_running, now, evalq, evaldata>>
    /\ last_eval' = NoEval
    /\ UNCHANGED rules_errors
    /\ UNCHANGED notRulesVars

\* the action the innermost running rule executes next
CurrentAction == rstack[Len(rstack)].actions[rstack[Len(rstack)].ai]

\* the body of Action.execute raises: a LOG action looks up getattr(logger, "INFO"),
\* which loguru's logger does not have, and a type without a branch of its own
\* reaches the comparison with ActionType.WEBHOOK, which the enum does not define
ActionRaises(act) ==
    act.enabled /\ act.type \in {"log", "webhook", "send_command", "set_value", "throttle"}

\* Action.execute of the next action of the innermost running rule. An exception
\* of the body is caught and logged inside execute; the loop of the caller goes on
\* with the next action whatever params holds, and _stats["errors"] is not touched
ExecAction ==
    /\ rstack # <<>>
    /\ LET act == CurrentAction
           adv == [rstack EXCEPT ![Len(rstack)].ai = @ + 1]
       IN IF act.enabled /\ act.type = "trigger_rule" /\ TriggerFires(rules, act.rule)
          THEN Fire(RuleIndex(rules, act.rule), adv) /\ now' = now
          ELSE /\ rstack' = Unwind(adv)
               /\ UNCHANGED <<rules, prev_triggered>>
               /\ IF act.enabled /\ act.type = "delay"
                  THEN now' \in {now, IF now < MaxTime THEN now + 1 ELSE now}
                  ELSE now' = now
    /\ rules_errors' = rules_errors
    /\ UNCHANGED last_eval
    /\ UNCHANGED <<rules_running, evalq, evaldata>>
    /\ UNCHANGED notRulesVars

RulesInit ==
    /\ rules = <<>>
    /\ rules_running = FALSE
    /\ now = 0
    /\ rstack = <<>>
    /\ evalq = <<>>
    /\ evaldata = NoData
    /\ prev_triggered = [n \in RuleNames |-> NoTime]
    /\ rules_errors = 0
    /\ last_eval = NoEval

RulesNext ==
    \/ \E r \in RuleCatalogue : AddRule(r)
    \/ \E n \in RuleNames : RemoveRule(n)
    \/ RulesStart
    \/ RulesStop
    \/ Tick
    \/ \E d \in DataSet : EvaluateData(d)
    \/ EvalStep
    \/ \E n \in RuleNames : Trigger(n)
    \/ ExecAction

\* ==========================================================================
\* Modbus TCP server and data generator (protocols/modbus.py)
\* ==========================================================================


\* the unit the model registers, and one that is never registered
Unit == 1
UnknownUnit == 2

\* the register addresses the model follows; a fresh device holds keys 0..99
MbAddrs == {0, 1, 65535, 65536}
InitialKeys == 100
\* the coil and discrete input addresses the model follows
BitAddrs == {0}
\* ModbusDataGenerator updates the first 10 keys of the dict, which stay 0..9:
\* the dict is filled in ascending order and later stores append new keys
GenKeys == 10

\* values a client writes and values a fresh device draws
MbValues == {0, 258}
\* int(20 + random.gauss(0, 5) + 10 * random.random()): two of the values drawn
TempValues == {23, 31}

EmptyDict == [a \in {} |-> 0]

\* dict.get(i, 0)
DictGet(d, k) == IF k \in DOMAIN d THEN d[k] ELSE 0

\* d[k] = v
DictSet(d, k, v) == [a \in DOMAIN d \cup {k} |-> IF a = k THEN v ELSE d[a]]

DictDrop(d, ks) == [a \in DOMAIN d \ ks |-> d[a]]

\* struct.pack(">H", v): two bytes, big endian; struct.error outside 0..65535
PackOk(v) == v >= 0 /\ v <= 65535
PackH(v) == <<v \div 256, v % 256>>

\* struct.unpack(">H", pdu[i:i+2]) with i counted from 0; needs both bytes
UnpackOk(pdu, i) == Len(pdu) >= i + 2
UnpackH(pdu, i) == pdu[i + 1] * 256 + pdu[i + 2]

\* 0x80 | function_code
ExceptionCode(fc) == IF (fc \div 128) % 2 = 1 THEN fc ELSE fc + 128

ExceptionPdu(fc, code) == <<ExceptionCode(fc), code>>

\* request PDUs as a client builds them
ReadHoldingPdu(a, q) == <<3>> \o PackH(a) \o PackH(q)
WriteSinglePdu(a, v) == <<6>> \o PackH(a) \o PackH(v)
WriteMultiplePdu(a, vs) ==
    <<16>> \o PackH(a) \o PackH(Len(vs)) \o <<2 * Len(vs)>>
        \o (IF Len(vs) = 1 THEN PackH(vs[1]) ELSE PackH(vs[1]) \o PackH(vs[2]))

\* _read_holding_registers: [0x03, byte_count] then each register big endian;
\* bytearray() and struct.pack raise on a value that does not fit
RECURSIVE ReadRegs(_, _, _)
ReadRegs(regs, a, q) ==
    IF q = 0 THEN <<>> ELSE PackH(DictGet(regs, a)) \o ReadRegs(regs, a + 1, q - 1)

ReadHoldingRaises(regs, pdu) ==
    \/ Len(pdu) < 5
    \/ UnpackH(pdu, 3) * 2 > 255
    \/ \E i \in 0..(UnpackH(pdu, 3) - 1) : ~PackOk(DictGet(regs, UnpackH(pdu, 1) + i))

\* a read that gives way after its first register: a round of the data generator
\* redraws the bank before the other registers are read
ReadHoldingRegistersTorn(regs, pdu) ==
    <<3, UnpackH(pdu, 3) * 2>>
        \o ReadRegs(regs, UnpackH(pdu, 1), 1)
        \o ReadRegs([a \in DOMAIN regs |-> 23], UnpackH(pdu, 1) + 1, UnpackH(pdu, 3) - 1)

ReadHoldingRegisters(regs, pdu) ==
    <<3, UnpackH(pdu, 3) * 2>> \o ReadRegs(regs, UnpackH(pdu, 1), UnpackH(pdu, 3))

\* dict.get(i, False)
BitGet(d, k) == IF k \in DOMAIN d THEN d[k] ELSE FALSE

\* request PDUs of the bit reads as a client builds them
ReadCoilsPdu(a, q) == <<1>> \o PackH(a) \o PackH(q)
ReadDiscreteInputsPdu(a, q) == <<2>> \o PackH(a) \o PackH(q)

\* a byte count that rounds down
ByteCountFloor(q) == q \div 8

\* byte_count = (quantity + 7) // 8
ByteCount(q) == (q + 7) \div 8

\* byte_val: for bit in range(8), byte_val |= (1 << bit) when the bit is set;
\* bits maps 0..7 to the eight tests, b is the bit the loop has reached
RECURSIVE PackByte(_, _)
PackByte(bits, b) ==
    IF b = 8 THEN 0
    ELSE (IF bits[b] THEN 2 ^ b ELSE 0) + PackByte(bits, b + 1)

\* struct.unpack(">HH", pdu[1:5]) raises on a short PDU, bytearray([fc, byte_count])
\* on a byte count above 255
ReadBitsRaises(pdu) == Len(pdu) < 5 \/ ByteCount(UnpackH(pdu, 3)) > 255

\* _read_coils: the coils start..start+quantity-1 are collected with get(i, False)
\* and packed, bit idx of the response taken from the list while idx < len(coils)
ReadCoils(coils, pdu) ==
    LET start == UnpackH(pdu, 1)
        quantity == UnpackH(pdu, 3)
        Bit(idx) == idx < quantity /\ BitGet(coils, start + idx)
    IN <<1, ByteCount(quantity)>> \o [i \in 1..ByteCount(quantity) |->
           PackByte([b \in 0..7 |-> Bit(8 * (i - 1) + b)], 0)]

\* _read_discrete_inputs: every bit of every byte is looked up with
\* get(start_addr + idx, False), the bits past the quantity included
ReadDiscreteInputs(inputs, pdu) ==
    LET start == UnpackH(pdu, 1)
        quantity == UnpackH(pdu, 3)
        Bit(idx) == BitGet(inputs, start + idx)
    IN <<2, ByteCount(quantity)>> \o [i \in 1..ByteCount(quantity) |->
           PackByte([b \in 0..7 |-> Bit(8 * (i - 1) + b)], 0)]

\* a store of the low byte only, in place of the 16-bit value
WriteSingleRegisterLowByte(regs, pdu) ==
    DictSet(regs, UnpackH(pdu, 1), UnpackH(pdu, 3) % 256)

\* _write_single_register: device.holding_registers[addr] = value; the PDU is echoed
WriteSingleRegister(regs, pdu) == DictSet(regs, UnpackH(pdu, 1), UnpackH(pdu, 3))

\* _write_multiple_registers: register i is stored as soon as its two bytes are
\* unpacked; a short PDU raises after the stores already made
RECURSIVE WriteMultiple(_, _, _, _, _)
WriteMultiple(regs, pdu, start, q, i) ==
    IF i = q THEN [regs |-> regs, raised |-> FALSE]
    ELSE IF ~UnpackOk(pdu, 6 + i * 2) THEN [regs |-> regs, raised |-> TRUE]
    ELSE WriteMultiple(DictSet(regs, start + i, UnpackH(pdu, 6 + i * 2)),
                       pdu, start, q, i + 1)

WriteMultipleRegisters(regs, pdu) ==
    IF Len(pdu) < 5 THEN [regs |-> regs, raised |-> TRUE]
    ELSE WriteMultiple(regs, pdu, UnpackH(pdu, 1), UnpackH(pdu, 3), 0)

\* _process_request: the response PDU (<<>> for none) and the registers afterwards.
\* Function codes 4, 5, 8 and 15 are outside the requests of the model
ProcessRequest(devs, unit, pdu) ==
    IF pdu = <<>> THEN [resp |-> <<>>, devs |-> devs]
    ELSE IF unit \notin DOMAIN devs
         THEN [resp |-> ExceptionPdu(pdu[1], 11), devs |-> devs]
    ELSE IF pdu[1] = 1
         THEN [resp |-> IF ReadBitsRaises(pdu)
                        THEN ExceptionPdu(1, 4)
                        ELSE ReadCoils(dev_coils[unit], pdu),
               devs |-> devs]
    ELSE IF pdu[1] = 2
         THEN [resp |-> IF ReadBitsRaises(pdu)
                        THEN ExceptionPdu(2, 4)
                        ELSE ReadDiscreteInputs(dev_inputs[unit], pdu),
               devs |-> devs]
    ELSE IF pdu[1] = 3
         THEN [resp |-> IF ReadHoldingRaises(devs[unit], pdu)
                        THEN ExceptionPdu(3, 4)
                        ELSE ReadHoldingRegisters(devs[unit], pdu),
               devs |-> devs]
    ELSE IF pdu[1] = 6
         THEN IF Len(pdu) < 5
              THEN [resp |-> ExceptionPdu(6, 4), devs |-> devs]
              ELSE [resp |-> pdu,
                    devs |-> [devs EXCEPT ![unit] = WriteSingleRegister(devs[unit], pdu)]]
    ELSE IF pdu[1] = 16
         THEN LET w == WriteMultipleRegisters(devs[unit], pdu)
              IN [resp |-> IF w.raised THEN ExceptionPdu(16, 4) ELSE SubSeq(pdu, 1, 5),
                  devs |-> [devs EXCEPT ![unit] = w.regs]]
    ELSE [resp |-> ExceptionPdu(pdu[1], 1), devs |-> devs]

\* the requests the model's clients send
MbRequests ==
    {ReadHoldingPdu(a, q) : a \in {0, 65535}, q \in {1, 2}}
    \cup {ReadCoilsPdu(65535, 2), ReadDiscreteInputsPdu(0, 9)}
    \cup {WriteSinglePdu(a, v) : a \in {0, 65535}, v \in MbValues}
    \cup {WriteMultiplePdu(a, <<v>>) : a \in {1, 65535}, v \in MbValues}
    \cup {WriteMultiplePdu(0, <<v, v>>) : v \in MbValues}
    \cup {SubSeq(WriteMultiplePdu(0, <<258, 258>>), 1, 8)}
    \cup {<<>>, <<6, 0>>, <<43, 14>>}

\* the addresses a request stores to, when the device is known
RECURSIVE WrittenBy(_, _, _)
WrittenBy(pdu, q, i) ==
    IF i = q \/ ~UnpackOk(pdu, 6 + i * 2) THEN {}
    ELSE {UnpackH(pdu, 1) + i} \cup WrittenBy(pdu, q, i + 1)

ClientWrites(pdu) ==
    IF Len(pdu) < 5 THEN {}
    ELSE IF pdu[1] = 6 THEN {UnpackH(pdu, 1)}
    ELSE IF pdu[1] = 16 THEN WrittenBy(pdu, UnpackH(pdu, 3), 0)
    ELSE {}

\* ModbusTCPServer.add_device: self.devices[device.unit_id] = device, a fresh
\* device with random registers 0..99
AddDevice ==
    /\ \E init \in [{a \in MbAddrs : a < InitialKeys} -> MbValues] :
           devices' = [u \in DOMAIN devices \cup {Unit} |-> init]
    /\ \E bits \in [{a \in BitAddrs : a < InitialKeys} -> BOOLEAN] :
           dev_coils' = [u \in DOMAIN devices \cup {Unit} |-> bits]
    /\ \E bits \in [{a \in BitAddrs : a < InitialKeys} -> BOOLEAN] :
           dev_inputs' = [u \in DOMAIN devices \cup {Unit} |-> bits]
    /\ gen_attached' = FALSE
    /\ w_client' = EmptyDict
    /\ w_any' = EmptyDict
    /\ UNCHANGED mb_last
    /\ UNCHANGED notModbusVars

\* ModbusDataGenerator.start for the registered device
GenStart ==
    /\ Unit \in DOMAIN devices
    /\ gen_attached' = TRUE
    /\ UNCHANGED <<devices, mb_last, w_client, w_any, dev_coils, dev_inputs>>
    /\ UNCHANGED notModbusVars

\* ModbusDataGenerator.stop
GenStop ==
    /\ gen_attached' = FALSE
    /\ UNCHANGED <<devices, mb_last, w_client, w_any, dev_coils, dev_inputs>>
    /\ UNCHANGED notModbusVars

\* one round of ModbusDataGenerator._generate_loop: the first ten keys are redrawn
\* (the modelled ones are below 4: the temperature branch)
GeneratedKeys(regs) == {a \in DOMAIN regs : a < GenKeys}

GenerateTick ==
    /\ gen_attached
    /\ \E vals \in [GeneratedKeys(devices[Unit]) -> TempValues] :
           devices' = [devices EXCEPT ![Unit] =
                          [a \in DOMAIN @ |-> IF a \in DOMAIN vals THEN vals[a] ELSE @[a]]]
    /\ w_any' = DictDrop(w_any, GeneratedKeys(devices[Unit]))
    /\ UNCHANGED <<gen_attached, mb_last, w_client, dev_coils, dev_inputs>>
    /\ UNCHANGED notModbusVars

\* one request read from a connection, processed and answered
\* (_handle_client calling _process_request)
ServeRequest(unit, pdu) ==
    LET r == ProcessRequest(devices, unit, pdu)
        fc06 == unit = Unit /\ Unit \in DOMAIN devices /\ Len(pdu) >= 5 /\ pdu[1] = 6
        written == IF unit = Unit /\ Unit \in DOMAIN devices THEN ClientWrites(pdu) ELSE {}
        Track(w) == IF fc06 /\ r.resp # <<>>
                    THEN DictSet(w, UnpackH(pdu, 1), UnpackH(pdu, 3))
                    ELSE DictDrop(w, written)
    IN /\ devices' = r.devs
       /\ mb_last' = [unit |-> unit, pdu |-> pdu, resp |-> r.resp]
       /\ w_client' = Track(w_client)
       /\ w_any' = Track(w_any)
       /\ UNCHANGED <<gen_attached, dev_coils, dev_inputs>>

HandleRequest(unit, pdu) == ServeRequest(unit, pdu) /\ UNCHANGED notModbusVars

ModbusInit ==
    /\ devices = [u \in {} |-> EmptyDict]
    /\ gen_attached = FALSE
    /\ mb_last = [unit |-> Unit, pdu |-> <<>>, resp |-> <<>>]
    /\ w_client = EmptyDict
    /\ w_any = EmptyDict
    /\ dev_coils = [u \in {} |-> EmptyDict]
    /\ dev_inputs = [u \in {} |-> EmptyDict]

ModbusNext ==
    \/ AddDevice
    \/ GenStart
    \/ GenStop
    \/ GenerateTick
    \/ \E pdu \in MbRequests : HandleRequest(Unit, pdu)
    \/ \E pdu \in {ReadHoldingPdu(0, 1), WriteSinglePdu(0, 258)} :
           HandleRequest(UnknownUnit, pdu)

\* ==========================================================================
\* MQTT broker (protocols/mqtt.py)
\* ==========================================================================

\* bounds of the broker model
MaxWritten == 2
MaxReceived == 2

\* client_id = f"client-{random.randint(1000, 9999)}": two of the ids drawn
ConnIds == {"client-1000", "client-1001"}
\* the client ids CONNECT packets carry; a client may pick any string
ClientIds == {"c1", "client-1000"}

\* topics and filters, as their '/'-separated levels
Topics == {<<"a", "b">>, <<"c">>}
Filters == {<<"a", "+">>, <<"#">>}

\* MQTT 3.1.1 filter matching: '+' is one level, a final '#' the remaining levels
RECURSIVE MqttMatch(_, _)
MqttMatch(f, t) ==
    IF f = <<>> THEN t = <<>>
    ELSE IF Head(f) = "#" THEN Len(f) = 1
    ELSE IF t = <<>> THEN FALSE
    ELSE (Head(f) = "+" \/ Head(f) = Head(t)) /\ MqttMatch(Tail(f), Tail(t))

\* the packets clients send, as (type, fields) after the fixed header is read
ConnectPkt(cid) == [type |-> 1, client_id |-> cid, subs |-> <<>>, topic |-> <<>>]
PublishPkt(t) == [type |-> 3, client_id |-> "", subs |-> <<>>, topic |-> t]
SubscribePkt(subs) == [type |-> 8, client_id |-> "", subs |-> subs, topic |-> <<>>]
PingPkt == [type |-> 12, client_id |-> "", subs |-> <<>>, topic |-> <<>>]
DisconnectPkt == [type |-> 14, client_id |-> "", subs |-> <<>>, topic |-> <<>>]

MqPackets ==
    {ConnectPkt(cid) : cid \in ClientIds}
    \cup {PublishPkt(t) : t \in Topics}
    \cup {SubscribePkt(<<[filter |-> f, qos |-> q]>>) : f \in Filters, q \in {0, 1}}
    \cup {PingPkt, DisconnectPkt}

\* first bytes of the packets the broker writes
CONNACK == 32
SUBACK == 144
PINGRESP == 208
PUBLISH == 48

NoSubs == [f \in {} |-> 0]

\* _handle_connect: self.clients[client_id] = MQTTClient(client_id from the payload)
HandleConnect(clients, pkt) ==
    [c \in DOMAIN clients \cup {pkt.client_id} |->
        IF c = pkt.client_id THEN NoSubs ELSE clients[c]]

\* _handle_subscribe: the pairs are recorded under the connection's client_id,
\* when that id is a key of self.clients
RECURSIVE RecordSubs(_, _)
RecordSubs(subs, pairs) ==
    IF pairs = <<>> THEN subs
    ELSE RecordSubs([f \in DOMAIN subs \cup {Head(pairs).filter} |->
                        IF f = Head(pairs).filter THEN Head(pairs).qos ELSE subs[f]],
                    Tail(pairs))

HandleSubscribe(clients, conn, pkt) ==
    IF conn \in DOMAIN clients
    THEN [clients EXCEPT ![conn] = RecordSubs(clients[conn], pkt.subs)]
    ELSE clients

\* _process_packet: the first byte of the response, 0 for no response
ProcessPacket(pkt) ==
    IF pkt.type = 1 THEN CONNACK
    ELSE IF pkt.type = 8 THEN SUBACK
    ELSE IF pkt.type = 12 THEN PINGRESP
    ELSE 0

\* the connections that are owed a PUBLISH on topic t: they subscribed, after
\* CONNECT, to a filter that matches t
Subscribers(t) == {c \in mq_conns : \E f \in mq_subscribed[c] : MqttMatch(f, t)}

\* MQTTBroker.start
MqStart ==
    /\ mq_running' = TRUE
    /\ UNCHANGED <<mq_conns, mq_clients, mq_active, mq_received, mq_written,
                   mq_subscribed, mq_connected, mq_expected, mq_session>>
    /\ UNCHANGED notMqttVars

\* MQTTBroker.stop
MqStop ==
    /\ mq_running' = FALSE
    /\ UNCHANGED <<mq_conns, mq_clients, mq_active, mq_received, mq_written,
                   mq_subscribed, mq_connected, mq_expected, mq_session>>
    /\ UNCHANGED notMqttVars

\* _handle_client is entered for a new connection and draws its client_id
MqAccept(conn) ==
    /\ mq_running
    /\ conn \notin mq_conns
    /\ mq_conns' = mq_conns \cup {conn}
    /\ mq_written' = [mq_written EXCEPT ![conn] = <<>>]
    /\ mq_subscribed' = [mq_subscribed EXCEPT ![conn] = {}]
    /\ mq_connected' = mq_connected \ {conn}
    /\ mq_expected' = [mq_expected EXCEPT ![conn] = 0]
    /\ mq_session' = [mq_session EXCEPT ![conn] = ""]
    /\ UNCHANGED <<mq_running, mq_clients, mq_active, mq_received>>
    /\ UNCHANGED notMqttVars

\* one iteration of the loop of _handle_client: a packet is read, processed and
\* answered; the loop ends when the broker has been stopped
MqPacket(conn, pkt) ==
    /\ conn \in mq_conns
    /\ Len(mq_written[conn]) < MaxWritten
    /\ pkt.type = 3 => mq_received < MaxReceived
    /\ mq_clients' = IF pkt.type = 1 THEN HandleConnect(mq_clients, pkt)
                     ELSE IF pkt.type = 8 THEN HandleSubscribe(mq_clients, conn, pkt)
                     ELSE mq_clients
    /\ mq_active' = IF pkt.type = 1 THEN Cardinality(DOMAIN mq_clients') ELSE mq_active
    /\ mq_received' = IF pkt.type = 3 THEN mq_received + 1 ELSE mq_received
    /\ mq_written' = IF ProcessPacket(pkt) # 0
                     THEN [mq_written EXCEPT ![conn] = Append(@, ProcessPacket(pkt))]
                     ELSE mq_written
    /\ mq_conns' = IF mq_running THEN mq_conns ELSE mq_conns \ {conn}
    /\ mq_connected' = IF pkt.type = 1 THEN mq_connected \cup {conn} ELSE mq_connected
    /\ mq_subscribed' =
          IF pkt.type = 8 /\ conn \in mq_connected
          THEN [mq_subscribed EXCEPT ![conn] =
                   @ \cup {pkt.subs[i].filter : i \in {j \in 1..Len(pkt.subs) : pkt.subs[j].qos = 0}}]
          ELSE mq_subscribed
    /\ mq_expected' =
          IF pkt.type = 3
          THEN [c \in ConnIds |-> IF c \in Subscribers(pkt.topic)
                                  THEN mq_expected[c] + 1 ELSE mq_expected[c]]
          ELSE mq_expected
    /\ mq_session' = IF pkt.type = 1 THEN [mq_session EXCEPT ![conn] = pkt.client_id]
                     ELSE mq_session
    /\ UNCHANGED mq_running
    /\ UNCHANGED notMqttVars

\* the client closes the connection: read returns b'' and the loop ends
MqEof(conn) ==
    /\ conn \in mq_conns
    /\ mq_conns' = mq_conns \ {conn}
    /\ UNCHANGED <<mq_running, mq_clients, mq_active, mq_received, mq_written,
                   mq_subscribed, mq_connected, mq_expected, mq_session>>
    /\ UNCHANGED notMqttVars

MqttInit ==
    /\ mq_running = FALSE
    /\ mq_conns = {}
    /\ mq_clients = [c \in {} |-> NoSubs]
    /\ mq_active = 0
    /\ mq_received = 0
    /\ mq_written = [c \in ConnIds |-> <<>>]
    /\ mq_subscribed = [c \in ConnIds |-> {}]
    /\ mq_connected = {}
    /\ mq_expected = [c \in ConnIds |-> 0]
    /\ mq_session = [c \in ConnIds |-> ""]

MqttNext ==
    \/ MqStart
    \/ MqStop
    \/ \E c \in ConnIds : MqAccept(c)
    \/ \E c \in ConnIds : \E pkt \in MqPackets : MqPacket(c, pkt)
    \/ \E c \in ConnIds : MqEof(c)

\* ==========================================================================
\* Traffic replayer (tools/replayer.py)
\* ==========================================================================

\* bounds of the replayer model
MaxSession == 2
MaxTasks == 2
MaxEmitted == 3

\* ReplayMode
ReplayModes == {"normal", "fast", "slow", "loop", "step"}
\* the modes in which _replay_loop awaits asyncio.sleep before a packet
SleepModes == {"slow", "fast", "normal"}

\* a task created by asyncio.create_task(self._replay_loop(mode, speed, loop)).
\* pc: "start" created and not yet run, "head" at the test of the while loop,
\* "sleep" suspended in asyncio.sleep, "send" about to call on_packet, "emit"
\* suspended inside on_packet, "done" returned, "crashed" ended by an exception,
\* "cancelled" cancelled by stop_replay.  n is len(packets), read when it starts.
NewTask(mode, loop) == [mode |-> mode, loop |-> loop, pc |-> "start", n |-> 0]

Suspended(t) == t.pc \in {"start", "sleep", "emit"}

\* no task is between two suspension points: a call from outside can run
ReplayerIdle == rp_active = 0

\* load_session
LoadSession(n) ==
    /\ ReplayerIdle
    /\ rp_session' = n
    /\ UNCHANGED <<rp_replaying, rp_current, rp_tasks, rp_task, rp_active,
                   rp_emitted, rp_completed, rp_paused>>
    /\ UNCHANGED rp_pass
    /\ UNCHANGED notReplayerVars

\* start_replay
StartReplay(mode, loop) ==
    /\ ReplayerIdle
    /\ Len(rp_tasks) < MaxTasks
    /\ IF rp_session = 0
       THEN UNCHANGED <<rp_replaying, rp_current, rp_tasks, rp_task, rp_paused, rp_pass>>
       ELSE /\ rp_replaying' = TRUE
            /\ rp_current' = 0
            /\ rp_pass' = <<>>
            /\ rp_tasks' = Append(rp_tasks, NewTask(mode, loop))
            /\ rp_task' = Len(rp_tasks) + 1
            /\ rp_paused' = FALSE
    /\ UNCHANGED <<rp_session, rp_active, rp_emitted, rp_completed>>
    /\ UNCHANGED notReplayerVars

\* stop_replay: only the task in self._task is cancelled
StopReplay ==
    /\ ReplayerIdle
    /\ rp_replaying' = FALSE
    /\ rp_tasks' = IF rp_task # 0 /\ Suspended(rp_tasks[rp_task])
                   THEN [rp_tasks EXCEPT ![rp_task].pc = "cancelled"]
                   ELSE rp_tasks
    /\ rp_paused' = FALSE
    /\ UNCHANGED <<rp_session, rp_current, rp_task, rp_active, rp_emitted, rp_completed>>
    /\ UNCHANGED rp_pass
    /\ UNCHANGED notReplayerVars

\* pause_replay
PauseReplay ==
    /\ ReplayerIdle
    /\ rp_replaying' = FALSE
    /\ rp_paused' = TRUE
    /\ UNCHANGED <<rp_session, rp_current, rp_tasks, rp_task, rp_active,
                   rp_emitted, rp_completed>>
    /\ UNCHANGED rp_pass
    /\ UNCHANGED notReplayerVars

\* resume_replay
ResumeReplay(mode) ==
    /\ ReplayerIdle
    /\ Len(rp_tasks) < MaxTasks
    /\ IF rp_session # 0 /\ rp_current < rp_session
       THEN /\ rp_replaying' = TRUE
            /\ rp_tasks' = Append(rp_tasks, NewTask(mode, FALSE))
            /\ rp_task' = Len(rp_tasks) + 1
       ELSE UNCHANGED <<rp_replaying, rp_tasks, rp_task>>
    /\ rp_paused' = FALSE
    /\ UNCHANGED <<rp_session, rp_current, rp_active, rp_emitted, rp_completed>>
    /\ UNCHANGED rp_pass
    /\ UNCHANGED notReplayerVars

\* the event loop runs a suspended task: a new task reads the packets of the
\* session, a sleeping one goes on to send, one that was inside on_packet
\* increments _current_packet
TaskWake(i) ==
    /\ ReplayerIdle
    /\ Suspended(rp_tasks[i])
    /\ rp_active' = i
    /\ LET t == rp_tasks[i] IN
       CASE t.pc = "start" ->
                /\ rp_tasks' = [rp_tasks EXCEPT ![i].pc = "head", ![i].n = rp_session]
                /\ UNCHANGED rp_current
         [] t.pc = "sleep" ->
                /\ rp_tasks' = [rp_tasks EXCEPT ![i].pc = "send"]
                /\ UNCHANGED rp_current
         [] t.pc = "emit" ->
                /\ rp_tasks' = [rp_tasks EXCEPT ![i].pc = "head"]
                /\ rp_current' = rp_current + 1
    /\ UNCHANGED <<rp_session, rp_replaying, rp_task, rp_emitted, rp_completed, rp_paused>>
    /\ UNCHANGED rp_pass
    /\ UNCHANGED notReplayerVars

\* _replay_loop from the test of the while loop to the sleep, or past the loop
\* to its end.  delay is assigned only when _current_packet > 0: in a sleeping
\* mode the first packet raises UnboundLocalError.
TaskHead(i) ==
    /\ rp_active = i
    /\ rp_tasks[i].pc = "head"
    /\ LET t == rp_tasks[i] IN
       IF rp_replaying /\ rp_current < t.n
       THEN /\ IF t.mode \in SleepModes
               THEN IF rp_current = 0
                    THEN /\ rp_tasks' = [rp_tasks EXCEPT ![i].pc = "crashed"]
                         /\ rp_active' = 0
                    ELSE /\ rp_tasks' = [rp_tasks EXCEPT ![i].pc = "sleep"]
                         /\ rp_active' = 0
               ELSE /\ rp_tasks' = [rp_tasks EXCEPT ![i].pc = "send"]
                    /\ UNCHANGED rp_active
            /\ UNCHANGED <<rp_replaying, rp_current, rp_completed, rp_pass>>
       ELSE IF t.loop /\ rp_replaying
            THEN /\ rp_current' = 0
                 /\ rp_pass' = <<>>
                 /\ UNCHANGED <<rp_tasks, rp_active, rp_replaying, rp_completed>>
            ELSE /\ rp_replaying' = FALSE
                 /\ rp_completed' = rp_completed + 1
                 /\ rp_tasks' = [rp_tasks EXCEPT ![i].pc = "done"]
                 /\ rp_active' = 0
                 /\ UNCHANGED <<rp_current, rp_pass>>
    /\ UNCHANGED <<rp_session, rp_task, rp_emitted, rp_paused>>
    /\ UNCHANGED notReplayerVars

\* await self.on_packet(packet); self._current_packet += 1.  The callback
\* either returns without suspending or suspends the task.
TaskSend(i, suspends) ==
    /\ rp_active = i
    /\ rp_tasks[i].pc = "send"
    /\ Len(rp_emitted) < MaxEmitted
    /\ rp_emitted' = Append(rp_emitted, rp_current)
    /\ rp_pass' = Append(rp_pass, rp_current)
    /\ IF suspends
       THEN /\ rp_tasks' = [rp_tasks EXCEPT ![i].pc = "emit"]
            /\ rp_active' = 0
            /\ UNCHANGED rp_current
       ELSE /\ rp_tasks' = [rp_tasks EXCEPT ![i].pc = "head"]
            /\ rp_current' = rp_current + 1
            /\ UNCHANGED rp_active
    /\ UNCHANGED <<rp_session, rp_replaying, rp_task, rp_completed, rp_paused>>
    /\ UNCHANGED notReplayerVars

ReplayerInit ==
    /\ rp_session = 0
    /\ rp_replaying = FALSE
    /\ rp_current = 0
    /\ rp_tasks = <<>>
    /\ rp_task = 0
    /\ rp_active = 0
    /\ rp_emitted = <<>>
    /\ rp_completed = 0
    /\ rp_paused = FALSE
    /\ rp_pass = <<>>

ReplayerNext ==
    \/ \E n \in 1..MaxSession : LoadSession(n)
    \/ \E mode \in ReplayModes, loop \in BOOLEAN : StartReplay(mode, loop)
    \/ StopReplay
    \/ PauseReplay
    \/ \E mode \in ReplayModes : ResumeReplay(mode)
    \/ \E i \in 1..Len(rp_tasks) : TaskWake(i)
    \/ \E i \in 1..Len(rp_tasks) : TaskHead(i)
    \/ \E i \in 1..Len(rp_tasks), suspends \in BOOLEAN : TaskSend(i, suspends)

\* ==========================================================================
\* Packet capturer (tools/capturer.py)
\* ==========================================================================

\* bounds of the capturer model
MaxPackets == 2
MaxCounter == 4

\* the arguments of capture_packet that filters are about; info is given by
\* the words it is made of
CapInputs ==
    { [protocol |-> "mqtt", source |-> "10.0.0.1", destination |-> "10.0.0.2",
       destination_port |-> 1883, info |-> {"connect"}],
      [protocol |-> "modbus", source |-> "10.0.0.2", destination |-> "10.0.0.3",
       destination_port |-> 502, info |-> {"read", "error"}],
      [protocol |-> "mqtt", source |-> "10.0.0.3", destination |-> "10.0.0.3",
       destination_port |-> 502, info |-> {}] }

\* the values given to set_filter, by filter type
FilterValues ==
    { <<"protocol", "mqtt">>, <<"port", 502>>, <<"address", "10.0.0.1">>,
      <<"keyword", "error">>, <<"length", 64>> }

\* self.filters after __init__ and after clear_filters; a list is modelled by
\* the set of its elements, the code only tests membership and emptiness
NoFilters == [protocols |-> {}, ports |-> {}, addresses |-> {}, keywords |-> {}]

HexWidth == 8
HexBase == 16

RECURSIVE Pow(_, _)
Pow(b, e) == IF e = 0 THEN 1 ELSE b * Pow(b, e - 1)

\* f"pkt-{n:08x}": the hexadecimal digits of n behind the prefix, most
\* significant first, padded with zeros to eight digits
PacketId(n) == [i \in 1..HexWidth |-> (n \div Pow(HexBase, HexWidth - i)) % HexBase]

\* the sequence number an id embeds
RECURSIVE IdSeq(_)
IdSeq(id) == IF id = <<>> THEN 0
             ELSE HexBase * IdSeq(SubSeq(id, 1, Len(id) - 1)) + id[Len(id)]

\* the filter tests of capture_packet: TRUE when the packet is kept
PassesFilters(f, p) ==
    /\ f.protocols # {} => p.protocol \in f.protocols
    /\ f.ports # {} => p.destination_port \in f.ports
    /\ f.addresses # {} => (p.source \in f.addresses \/ p.destination \in f.addresses)

\* ps[-m:] of Python: a start of -0 is 0, the whole list
NegSlice(ps, m) ==
    IF m = 0 THEN ps
    ELSE IF m >= Len(ps) THEN ps
    ELSE SubSeq(ps, Len(ps) - m + 1, Len(ps))

\* "Maintain max size"
Trim(ps, m) == IF Len(ps) > m THEN NegSlice(ps, m) ELSE ps

\* self.packets.clear(), given the list before; a variant that keeps the list
KeepPackets(ps) == ps
ClearPackets(ps) == <<>>

\* start
CapStart ==
    /\ cap_running' = TRUE
    /\ UNCHANGED <<cap_max, cap_packets, cap_counter, cap_filters, cap_total, cap_stored>>
    /\ UNCHANGED notCapturerVars

\* stop
CapStop ==
    /\ cap_running' = FALSE
    /\ UNCHANGED <<cap_max, cap_packets, cap_counter, cap_filters, cap_total, cap_stored>>
    /\ UNCHANGED notCapturerVars

\* set_filter
SetFilter(type, value) ==
    /\ cap_filters' =
          CASE type = "protocol" -> [cap_filters EXCEPT !.protocols = @ \cup {value}]
            [] type = "port" -> [cap_filters EXCEPT !.ports = @ \cup {value}]
            [] type = "address" -> [cap_filters EXCEPT !.addresses = @ \cup {value}]
            [] type = "keyword" -> [cap_filters EXCEPT !.keywords = @ \cup {value}]
            [] OTHER -> cap_filters
    /\ UNCHANGED <<cap_max, cap_packets, cap_running, cap_counter, cap_total, cap_stored>>
    /\ UNCHANGED notCapturerVars

\* clear_filters
ClearFilters ==
    /\ cap_filters' = NoFilters
    /\ UNCHANGED <<cap_max, cap_packets, cap_running, cap_counter, cap_total, cap_stored>>
    /\ UNCHANGED notCapturerVars

\* capture_packet
CapturePacket(p) ==
    /\ cap_counter < MaxCounter
    /\ IF cap_running /\ PassesFilters(cap_filters, p)
       THEN LET packet == [id |-> PacketId(cap_counter + 1), protocol |-> p.protocol,
                           source |-> p.source, destination |-> p.destination,
                           destination_port |-> p.destination_port, info |-> p.info]
            IN /\ cap_counter' = cap_counter + 1
               /\ cap_packets' = Trim(Append(cap_packets, packet), cap_max)
               /\ cap_total' = cap_total + 1
               /\ cap_stored' = Append(cap_stored, packet)
       ELSE UNCHANGED <<cap_counter, cap_packets, cap_total, cap_stored>>
    /\ UNCHANGED <<cap_max, cap_running, cap_filters>>
    /\ UNCHANGED notCapturerVars

\* clear_capture
ClearCapture ==
    /\ cap_packets' = ClearPackets(cap_packets)
    /\ cap_counter' = 0
    /\ cap_total' = 0
    /\ cap_stored' = <<>>
    /\ UNCHANGED <<cap_max, cap_running, cap_filters>>
    /\ UNCHANGED notCapturerVars

\* PacketCapturer(max_packets)
CapturerInit ==
    /\ cap_max \in 0..MaxPackets
    /\ cap_packets = <<>>
    /\ cap_running = FALSE
    /\ cap_counter = 0
    /\ cap_filters = NoFilters
    /\ cap_total = 0
    /\ cap_stored = <<>>

CapturerNext ==
    \/ CapStart
    \/ CapStop
    \/ \E fv \in FilterValues : SetFilter(fv[1], fv[2])
    \/ ClearFilters
    \/ \E p \in CapInputs : CapturePacket(p)
    \/ ClearCapture

\* ==========================================================================
\* In-memory event bus (bridge/event_bus.py)
\* ==========================================================================

\* bounds of the event bus model
MaxSubs == 2
MaxHistory == 1

\* two values of EventType
EventTypes == {"alert", "metric"}
\* the priorities given to subscribe
SubPriorities == {0, 5}
\* the callbacks: plain functions, which carry no attribute __priority__
Handlers == {"h1", "h2"}

\* getattr(x, '__priority__', 0)
AttrPriority(h) == 0

\* key = f"{event_type.value}:{priority}"
SubKey(type, priority) == <<type, priority>>

\* event.event_type.value in key: a substring test; no value of EventType occurs
\* inside another value or inside a formatted priority
ValueInKey(type, key) == key[1] = type

\* list.sort(key=..., reverse=True) is stable, over [item, rank] pairs:
\* insertion of x behind the elements whose rank is not smaller
RECURSIVE InsertSorted(_, _)
InsertSorted(x, xs) ==
    IF xs = <<>> THEN <<x>>
    ELSE IF Head(xs).rank >= x.rank THEN <<Head(xs)>> \o InsertSorted(x, Tail(xs))
    ELSE <<x>> \o xs

RECURSIVE SortDesc(_)
SortDesc(xs) ==
    IF xs = <<>> THEN <<>>
    ELSE InsertSorted(xs[Len(xs)], SortDesc(SubSeq(xs, 1, Len(xs) - 1)))

\* self.subscribers[key].sort(key=lambda x: getattr(x, '__priority__', 0), reverse=True)
SortCallbacks(cbs) ==
    LET sorted == SortDesc([i \in 1..Len(cbs) |-> [item |-> cbs[i], rank |-> AttrPriority(cbs[i])]])
    IN [i \in 1..Len(cbs) |-> sorted[i].item]

KeyIndex(subs, key) ==
    IF \E i \in 1..Len(subs) : subs[i].key = key
    THEN CHOOSE i \in 1..Len(subs) : subs[i].key = key
    ELSE 0

\* list.remove(x): the first occurrence is removed
RemoveFirst(xs, x) ==
    IF \E i \in 1..Len(xs) : xs[i] = x
    THEN LET i == CHOOSE i \in 1..Len(xs) : xs[i] = x /\ \A m \in 1..(i - 1) : xs[m] # x
         IN SubSeq(xs, 1, i - 1) \o SubSeq(xs, i + 1, Len(xs))
    ELSE xs

\* the effect of subscribe on self.subscribers
SubscribeTo(subs, type, h, priority) ==
    LET key == SubKey(type, priority)
        withKey == IF KeyIndex(subs, key) = 0
                   THEN Append(subs, [key |-> key, callbacks |-> <<>>])
                   ELSE subs
        i == KeyIndex(withKey, key)
    IN [withKey EXCEPT ![i].callbacks = SortCallbacks(Append(@, h))]

\* the effect of unsubscribe on self.subscribers
UnsubscribeFrom(subs, type, h) ==
    [i \in 1..Len(subs) |->
        IF ValueInKey(type, subs[i].key)
        THEN [subs[i] EXCEPT !.callbacks = RemoveFirst(@, h)]
        ELSE subs[i]]

\* self._events[-self.max_history:] after the append
TrimHistory(es) == IF Len(es) > MaxHistory THEN NegSlice(es, MaxHistory) ELSE es

\* try: callback(event) / except Exception: TRUE when _notify_subscribers goes
\* on with the next callback; a variant without the try
ExceptionPropagates(raises) == ~raises
ExceptionCaught(raises) == TRUE

\* the subscriptions to a type, by descending subscribe priority, then in the
\* order of the subscribe calls
ExpectedOrder(log, type) ==
    LET idx == {i \in 1..Len(log) : log[i].type = type /\ log[i].active}
        RECURSIVE Pick(_, _)
        Pick(n, from) ==
            IF n > Len(log) THEN <<>>
            ELSE IF n \in from
                 THEN <<[item |-> log[n].handler, rank |-> log[n].priority]>> \o Pick(n + 1, from)
                 ELSE Pick(n + 1, from)
        sorted == SortDesc(Pick(1, idx))
    IN [i \in 1..Len(sorted) |-> sorted[i].item]

\* the subscription log after unsubscribe: for each priority, the oldest
\* subscription of h to the type that is in force ends
RECURSIVE LogWithout(_, _, _, _)
LogWithout(log, type, h, seen) ==
    IF log = <<>> THEN <<>>
    ELSE IF /\ Head(log).type = type /\ Head(log).handler = h
            /\ Head(log).active /\ Head(log).priority \notin seen
         THEN <<[Head(log) EXCEPT !.active = FALSE]>>
                  \o LogWithout(Tail(log), type, h, seen \cup {Head(log).priority})
         ELSE <<Head(log)>> \o LogWithout(Tail(log), type, h, seen)

\* no publish is in progress
EventBusIdle == ~eb_delivering

\* subscribe
EbSubscribe(type, h, priority) ==
    /\ EventBusIdle
    /\ Len(eb_sublog) < MaxSubs
    /\ eb_subscribers' = SubscribeTo(eb_subscribers, type, h, priority)
    /\ eb_sublog' = Append(eb_sublog, [type |-> type, handler |-> h, priority |-> priority,
                                     active |-> TRUE])
    /\ eb_raising' = {}
    /\ eb_raised' = FALSE
    /\ eb_invoked' = <<>>
    /\ eb_expected' = <<>>
    /\ eb_touched' = {}
    /\ UNCHANGED <<eb_events, eb_delivering, eb_event, eb_k, eb_j, eb_used>>
    /\ UNCHANGED notEventBusVars

\* unsubscribe
EbUnsubscribe(type, h) ==
    /\ EventBusIdle
    /\ eb_subscribers' = UnsubscribeFrom(eb_subscribers, type, h)
    /\ eb_sublog' = LogWithout(eb_sublog, type, h, {})
    /\ eb_raising' = {}
    /\ eb_raised' = FALSE
    /\ eb_invoked' = <<>>
    /\ eb_expected' = <<>>
    /\ eb_touched' = {}
    /\ UNCHANGED <<eb_events, eb_delivering, eb_event, eb_k, eb_j, eb_used>>
    /\ UNCHANGED notEventBusVars

\* InMemoryEventBus.publish up to the entry of the loop of _notify_subscribers
EbPublish(type) ==
    /\ EventBusIdle
    /\ eb_events' = TrimHistory(Append(eb_events, type))
    /\ eb_delivering' = TRUE
    /\ eb_event' = type
    /\ eb_k' = 1
    /\ eb_j' = 1
    /\ eb_raising' = {}
    /\ eb_raised' = FALSE
    /\ eb_invoked' = <<>>
    /\ eb_expected' = ExpectedOrder(eb_sublog, type)
    /\ eb_used' = Len(eb_subscribers)
    /\ eb_touched' = {}
    /\ UNCHANGED <<eb_subscribers, eb_sublog>>
    /\ UNCHANGED notEventBusVars

\* the loop over self.subscribers.items() asks for the next item: the dict
\* iterator raises RuntimeError when the dict has changed size since the loop
\* began, and _notify_subscribers and publish end with that exception
EbNextItem ==
    IF Len(eb_subscribers) # eb_used
    THEN /\ eb_raised' = TRUE
         /\ eb_delivering' = FALSE
         /\ eb_k' = 1
         /\ eb_j' = 1
    ELSE /\ eb_k' = eb_k + 1
         /\ eb_j' = 1
         /\ UNCHANGED <<eb_delivering, eb_raised>>

\* a callback is being called: the loops stand at callback eb_j of item eb_k
AtCallback ==
    /\ eb_delivering
    /\ eb_k <= Len(eb_subscribers)
    /\ ValueInKey(eb_event, eb_subscribers[eb_k].key)
    /\ eb_j <= Len(eb_subscribers[eb_k].callbacks)

\* one step of the loops of _notify_subscribers: the next callback is called
\* and returns or raises Exception, or the loop over the keys moves on, or it
\* ends and publish returns
EbDeliver(raises) ==
    /\ eb_delivering
    /\ IF eb_k > Len(eb_subscribers)
       THEN /\ ~raises
            /\ eb_delivering' = FALSE
            /\ eb_k' = 1
            /\ UNCHANGED <<eb_j, eb_invoked, eb_raised, eb_raising>>
       ELSE LET item == eb_subscribers[eb_k] IN
            IF ~ValueInKey(eb_event, item.key) \/ eb_j > Len(item.callbacks)
            THEN /\ ~raises
                 /\ EbNextItem
                 /\ UNCHANGED <<eb_invoked, eb_raising>>
            ELSE LET h == item.callbacks[eb_j] IN
                 /\ eb_invoked' = Append(eb_invoked, h)
                 /\ eb_raising' = IF raises THEN eb_raising \cup {h} ELSE eb_raising
                 /\ IF ExceptionCaught(raises)
                    THEN /\ eb_j' = eb_j + 1
                         /\ UNCHANGED <<eb_k, eb_delivering, eb_raised>>
                    ELSE /\ eb_raised' = TRUE
                         /\ eb_delivering' = FALSE
                         /\ eb_k' = 1
                         /\ eb_j' = 1
    /\ UNCHANGED <<eb_subscribers, eb_events, eb_event, eb_sublog, eb_expected, eb_used,
                   eb_touched>>
    /\ UNCHANGED notEventBusVars

\* the callback that is called next calls unsubscribe(type, h) in its body and
\* returns; the loops of _notify_subscribers go on over the lists as they are now
EbDeliverUnsubscribing(type, h) ==
    /\ AtCallback
    /\ eb_invoked' = Append(eb_invoked, eb_subscribers[eb_k].callbacks[eb_j])
    /\ eb_subscribers' = UnsubscribeFrom(eb_subscribers, type, h)
    /\ eb_sublog' = LogWithout(eb_sublog, type, h, {})
    /\ eb_touched' = eb_touched \cup {h, eb_subscribers[eb_k].callbacks[eb_j]}
    /\ eb_j' = eb_j + 1
    /\ UNCHANGED <<eb_events, eb_delivering, eb_event, eb_k, eb_raising, eb_raised,
                   eb_expected, eb_used>>
    /\ UNCHANGED notEventBusVars

\* the callback that is called next calls subscribe(type, h, priority) in its
\* body and returns
EbDeliverSubscribing(type, h, priority) ==
    /\ AtCallback
    /\ Len(eb_sublog) < MaxSubs
    /\ eb_invoked' = Append(eb_invoked, eb_subscribers[eb_k].callbacks[eb_j])
    /\ eb_subscribers' = SubscribeTo(eb_subscribers, type, h, priority)
    /\ eb_sublog' = Append(eb_sublog, [type |-> type, handler |-> h, priority |-> priority,
                                     active |-> TRUE])
    /\ eb_touched' = eb_touched \cup {h, eb_subscribers[eb_k].callbacks[eb_j]}
    /\ eb_j' = eb_j + 1
    /\ UNCHANGED <<eb_events, eb_delivering, eb_event, eb_k, eb_raising, eb_raised,
                   eb_expected, eb_used>>
    /\ UNCHANGED notEventBusVars

EventBusInit ==
    /\ eb_subscribers = <<>>
    /\ eb_events = <<>>
    /\ eb_delivering = FALSE
    /\ eb_event = "alert"
    /\ eb_k = 1
    /\ eb_j = 1
    /\ eb_raising = {}
    /\ eb_raised = FALSE
    /\ eb_invoked = <<>>
    /\ eb_sublog = <<>>
    /\ eb_expected = <<>>
    /\ eb_used = 0
    /\ eb_touched = {}

\* the bus with handlers that call subscribe and unsubscribe from their body
ReentrantNext ==
    \/ \E type \in EventTypes, h \in Handlers, priority \in SubPriorities :
           EbSubscribe(type, h, priority)
    \/ \E type \in EventTypes, h \in Handlers : EbUnsubscribe(type, h)
    \/ \E type \in EventTypes : EbPublish(type)
    \/ \E raises \in BOOLEAN : EbDeliver(raises)
    \/ \E type \in EventTypes, h \in Handlers : EbDeliverUnsubscribing(type, h)
    \/ \E type \in EventTypes, h \in Handlers, priority \in SubPriorities :
           EbDeliverSubscribing(type, h, priority)

EventBusNext ==
    \/ \E type \in EventTypes, h \in Handlers, priority \in SubPriorities :
           EbSubscribe(type, h, priority)
    \/ \E type \in EventTypes, h \in Handlers : EbUnsubscribe(type, h)
    \/ \E type \in EventTypes : EbPublish(type)
    \/ \E raises \in BOOLEAN : EbDeliver(raises)

\* ==========================================================================
\* Bridge engine (bridge/engine.py)
\* ==========================================================================

\* bound of the bridge model
MaxPublished == 2

BrProtocols == {"mqtt", "coap"}

\* topics as the list topic.split('/') gives; "" is the empty topic
TopicAB == <<"a", "b">>
TopicX == <<"x">>
NoTopic == <<>>

\* dict.get(part) of a missing field, and the data_value of _check_conditions
\* for it: None
NoneValue == -1

\* BridgeMapping; transform is the list of the steps of the transform dict in
\* the order _transform_data applies them, the field mappings and then the
\* formulas, empty for a mapping without transform.  A formula step
\* [source, target, type |-> "formula"] stands for the formula
\* {"field": target, "expression": "data['<source>'] * 2"}
Mapping(sp, st, tp, tt, dir, tr) ==
    [source_protocol |-> sp, source_topic |-> st, target_protocol |-> tp,
     target_topic |-> tt, direction |-> dir, transform |-> tr]

\* BridgeRule
Bridge(n, ms, en, cs) == [name |-> n, mappings |-> ms, enabled |-> en, conditions |-> cs]

MapForward == Mapping("mqtt", TopicAB, "coap", TopicX, "source_to_target", <<>>)
MapBidir == Mapping("mqtt", TopicAB, "coap", TopicX, "bidirectional", <<>>)
MapToInt == Mapping("mqtt", TopicAB, "coap", TopicX, "source_to_target",
                    <<[source |-> "raw", target |-> "value", type |-> "integer"]>>)
MapDouble == Mapping("mqtt", TopicAB, "coap", TopicX, "source_to_target",
                     <<[source |-> "value", target |-> "double", type |-> "formula"]>>)

\* the rules given to add_bridge
BridgeCatalogue ==
    { Bridge("b1", <<MapToInt>>, TRUE, <<>>),
      Bridge("b1", <<MapBidir, MapForward>>, TRUE, <<>>),
      Bridge("b2", <<MapForward>>, TRUE, <<Cond("value", "eq", 9)>>),
      Bridge("b2", <<MapDouble>>, TRUE, <<>>),
      Bridge("b2", <<MapBidir>>, FALSE, <<>>) }

\* the messages given to publish
BrMessages ==
    { [protocol |-> "mqtt", topic |-> TopicAB, data |-> [f \in {"raw"} |-> 9]],
      [protocol |-> "mqtt", topic |-> TopicAB, data |-> [f \in {"value"} |-> 9]],
      [protocol |-> "coap", topic |-> TopicX, data |-> [f \in {"value"} |-> 1]],
      [protocol |-> "coap", topic |-> NoTopic, data |-> NoData] }

\* data.get(field) for a field without dots
FieldValue(data, f) == IF f \in DOMAIN data THEN data[f] ELSE NoneValue

\* _topic_matches
RECURSIVE ZipMatches(_, _)
ZipMatches(t, p) ==
    IF t = <<>> \/ p = <<>> THEN "end"
    ELSE IF Head(p) = "#" THEN "true"
    ELSE IF Head(p) = "+" \/ Head(t) = Head(p) THEN ZipMatches(Tail(t), Tail(p))
    ELSE "false"

TopicMatches(topic, pattern) ==
    IF pattern = <<"#">> \/ pattern = <<"+">> THEN TRUE
    ELSE LET z == ZipMatches(topic, pattern)
         IN IF z = "end" THEN Len(topic) = Len(pattern) ELSE z = "true"

\* _matches_mapping
MatchesMapping(protocol, topic, m) ==
    LET sideOk ==
            IF m.direction = "target_to_source"
            THEN protocol = m.target_protocol /\ topic = m.target_topic
            ELSE IF m.direction = "source_to_target"
            THEN protocol = m.source_protocol /\ topic = m.source_topic
            ELSE \/ protocol = m.source_protocol /\ topic = m.source_topic
                 \/ protocol = m.target_protocol /\ topic = m.target_topic
        \* check_topic = source_topic or target_topic; an empty topic is falsy
        check_topic ==
            IF m.source_protocol = protocol /\ m.source_topic # NoTopic THEN m.source_topic
            ELSE IF m.target_protocol = protocol THEN m.target_topic
            ELSE NoTopic
    IN sideOk /\ (check_topic # NoTopic => TopicMatches(topic, check_topic))

\* _check_conditions: "true", "false", or "raise" for the TypeError of an
\* ordering comparison with None
RECURSIVE CheckConditions(_, _)
CheckConditions(cs, data) ==
    IF cs = <<>> THEN "true"
    ELSE LET c == Head(cs)
             dv == FieldValue(data, c.field)
             ordering == c.operator \in {"gt", "lt", "gte", "lte"}
             holds == CASE c.operator = "eq" -> dv = c.value
                        [] c.operator = "ne" -> dv # c.value
                        [] c.operator = "gt" -> dv > c.value
                        [] c.operator = "lt" -> dv < c.value
                        [] c.operator = "gte" -> dv >= c.value
                        [] c.operator = "lte" -> dv <= c.value
                        [] OTHER -> TRUE
         IN IF ordering /\ dv = NoneValue THEN "raise"
            ELSE IF ~holds THEN "false"
            ELSE CheckConditions(Tail(cs), data)

\* _transform_data.  A field mapping does result[target] = int(result.get(source)),
\* written into the dict it was given; int(None) raises TypeError.  A formula
\* is evaluated inside try/except: when eval raises (KeyError for a missing
\* field) the step is passed over.  failed tells whether a step raised.
RECURSIVE TransformData(_, _)
TransformData(data, steps) ==
    IF steps = <<>> THEN [raised |-> FALSE, failed |-> FALSE, data |-> data]
    ELSE LET st == Head(steps)
             value == FieldValue(data, st.source)
         IN IF st.type = "formula"
            THEN IF value = NoneValue
                 THEN [TransformData(data, Tail(steps)) EXCEPT !.failed = TRUE]
                 ELSE TransformData(DictSet(data, st.target, 2 * value), Tail(steps))
            ELSE IF st.type \in {"integer", "float"} /\ value = NoneValue
                 THEN [raised |-> TRUE, failed |-> TRUE, data |-> data]
                 ELSE TransformData(DictSet(data, st.target, value), Tail(steps))

\* _forward_message: the call of adapter.publish, none without an adapter for
\* the target protocol
ForwardMessage(adapters, bridge, i, data) ==
    LET m == bridge.mappings[i]
    IN IF m.target_protocol \in adapters
       THEN <<[bridge |-> bridge.name, index |-> i, mapping |-> m,
               conditions |-> bridge.conditions,
               protocol |-> m.target_protocol, topic |-> m.target_topic, data |-> data]>>
       ELSE <<>>

\* the loop of _route_message over the mappings of one bridge, from mapping i.
\* acc carries the data dict, the adapter calls so far, the statistics and
\* whether an exception left the loop
RECURSIVE RouteMappings(_, _, _, _, _)
RouteMappings(adapters, msg, bridge, i, acc) ==
    IF acc.raised \/ i > Len(bridge.mappings) THEN acc
    ELSE LET m == bridge.mappings[i] IN
         IF ~MatchesMapping(msg.protocol, msg.topic, m)
         THEN RouteMappings(adapters, msg, bridge, i + 1, acc)
         ELSE LET cc == IF bridge.conditions # <<>>
                        THEN CheckConditions(bridge.conditions, acc.data) ELSE "true"
                  tr == TransformData(acc.data, m.transform)
              IN IF cc = "raise" THEN [acc EXCEPT !.raised = TRUE]
                 ELSE IF cc = "false" THEN RouteMappings(adapters, msg, bridge, i + 1, acc)
                 ELSE IF tr.raised
                      THEN [acc EXCEPT !.raised = TRUE, !.data = tr.data,
                                       !.failed = Append(@, [bridge |-> bridge.name, index |-> i])]
                 ELSE RouteMappings(adapters, msg, bridge, i + 1,
                        [acc EXCEPT !.data = tr.data,
                                    !.failed = IF tr.failed
                                               THEN Append(@, [bridge |-> bridge.name, index |-> i])
                                               ELSE @,
                                    !.calls = @ \o ForwardMessage(adapters, bridge, i, tr.data),
                                    !.forwarded = @ + 1,
                                    !.transformed = IF m.transform # <<>> THEN @ + 1 ELSE @])

\* the loop of _route_message over self.bridges.items(), from bridge k
RECURSIVE RouteBridges(_, _, _, _, _)
RouteBridges(adapters, msg, bridges, k, acc) ==
    IF acc.raised \/ k > Len(bridges) THEN acc
    ELSE IF ~bridges[k].enabled THEN RouteBridges(adapters, msg, bridges, k + 1, acc)
    ELSE RouteBridges(adapters, msg, bridges, k + 1,
                      RouteMappings(adapters, msg, bridges[k], 1, acc))

\* _route_message
RouteMessage(adapters, bridges, msg) ==
    LET acc0 == [data |-> msg.data, calls |-> <<>>, failed |-> <<>>, forwarded |-> 0,
                 transformed |-> 0,
                 raised |-> FALSE]
    IN IF msg.topic = NoTopic THEN acc0
       ELSE RouteBridges(adapters, msg, bridges, 1, acc0)

BridgeIndex(bridges, n) ==
    IF \E i \in 1..Len(bridges) : bridges[i].name = n
    THEN CHOOSE i \in 1..Len(bridges) : bridges[i].name = n
    ELSE 0

\* register_adapter
RegisterAdapter(p) ==
    /\ br_adapters' = br_adapters \cup {p}
    /\ UNCHANGED <<br_bridges, br_queue, br_running, br_stats, br_published, br_last>>
    /\ UNCHANGED notBridgeVars

\* add_bridge: self.bridges[rule.name] = rule
AddBridge(rule) ==
    /\ br_bridges' = IF BridgeIndex(br_bridges, rule.name) = 0
                     THEN Append(br_bridges, rule)
                     ELSE [br_bridges EXCEPT ![BridgeIndex(br_bridges, rule.name)] = rule]
    /\ br_stats' = [br_stats EXCEPT !.active_bridges = Len(br_bridges')]
    /\ UNCHANGED <<br_adapters, br_queue, br_running, br_published, br_last>>
    /\ UNCHANGED notBridgeVars

\* remove_bridge
RemoveBridge(n) ==
    /\ LET i == BridgeIndex(br_bridges, n) IN
       br_bridges' = IF i = 0 THEN br_bridges
                     ELSE SubSeq(br_bridges, 1, i - 1) \o SubSeq(br_bridges, i + 1, Len(br_bridges))
    /\ br_stats' = IF BridgeIndex(br_bridges, n) = 0 THEN br_stats
                   ELSE [br_stats EXCEPT !.active_bridges = Len(br_bridges')]
    /\ UNCHANGED <<br_adapters, br_queue, br_running, br_published, br_last>>
    /\ UNCHANGED notBridgeVars

\* start
BridgeStart ==
    /\ br_running' = TRUE
    /\ UNCHANGED <<br_bridges, br_adapters, br_queue, br_stats, br_published, br_last>>
    /\ UNCHANGED notBridgeVars

\* stop
BridgeStop ==
    /\ br_running' = FALSE
    /\ UNCHANGED <<br_bridges, br_adapters, br_queue, br_stats, br_published, br_last>>
    /\ UNCHANGED notBridgeVars

\* load_mappings on a file that parses: a rule is built from each entry of
\* "mappings" in turn and given to add_bridge at once.  An entry that is not
\* ok has a mapping without a required key or with a direction that is not a
\* BridgeDirection: building its rule raises KeyError or ValueError, which
\* leaves the loop and the call.
BadEntry == [ok |-> FALSE]
GoodEntry(rule) == [ok |-> TRUE, rule |-> rule]

RuleB1 == Bridge("b1", <<MapToInt>>, TRUE, <<>>)
RuleB2 == Bridge("b2", <<MapDouble>>, TRUE, <<>>)

\* the mapping files given to load_mappings, as the list data["mappings"]
MappingFiles ==
    { <<>>,
      <<GoodEntry(RuleB1)>>,
      <<GoodEntry(RuleB1), GoodEntry(RuleB2)>>,
      <<BadEntry>>,
      <<BadEntry, GoodEntry(RuleB1)>>,
      <<GoodEntry(RuleB2), BadEntry>>,
      <<GoodEntry(RuleB1), GoodEntry(RuleB2), BadEntry>> }

\* load_mappings raises
LoadRaises(file) == \E k \in 1..Len(file) : ~file[k].ok

\* self.bridges[rule.name] = rule
PutBridge(bridges, rule) ==
    IF BridgeIndex(bridges, rule.name) = 0
    THEN Append(bridges, rule)
    ELSE [bridges EXCEPT ![BridgeIndex(bridges, rule.name)] = rule]

\* the bridges after the loop of load_mappings has run from entry k on
RECURSIVE LoadEntries(_, _, _)
LoadEntries(bridges, file, k) ==
    IF k > Len(file) \/ ~file[k].ok THEN bridges
    ELSE LoadEntries(PutBridge(bridges, file[k].rule), file, k + 1)

LoadMappings(file) ==
    /\ br_bridges' = LoadEntries(br_bridges, file, 1)
    /\ br_stats' = IF file # <<>> /\ file[1].ok
                   THEN [br_stats EXCEPT !.active_bridges = Len(br_bridges')]
                   ELSE br_stats
    /\ UNCHANGED <<br_adapters, br_queue, br_running, br_published, br_last>>
    /\ UNCHANGED notBridgeVars

\* publish: the message is put on the queue.  The queue is asyncio.Queue()
\* without maxsize: put never waits and nothing is ever taken off to make room.
BridgePublish(msg) ==
    /\ br_published < MaxPublished
    /\ br_published' = br_published + 1
    /\ br_queue' = Append(br_queue, msg)
    /\ UNCHANGED <<br_bridges, br_adapters, br_running, br_stats, br_last>>
    /\ UNCHANGED notBridgeVars

\* one round of _process_messages: a message is taken from the queue and
\* routed; an exception is counted in errors
ProcessMessage ==
    /\ br_running
    /\ br_queue # <<>>
    /\ LET msg == Head(br_queue)
           r == RouteMessage(br_adapters, br_bridges, msg)
       IN /\ br_stats' = [br_stats EXCEPT
                             !.messages_forwarded = @ + r.forwarded,
                             !.messages_transformed = @ + r.transformed,
                             !.errors = IF r.raised THEN @ + 1 ELSE @]
          /\ br_last' = [routed |-> TRUE, msg |-> msg, calls |-> r.calls, raised |-> r.raised,
                          failed |-> r.failed, errors |-> br_stats'.errors - br_stats.errors]
    /\ br_queue' = Tail(br_queue)
    /\ UNCHANGED <<br_bridges, br_adapters, br_running, br_published>>
    /\ UNCHANGED notBridgeVars

BridgeInit ==
    /\ br_bridges = <<>>
    /\ br_adapters = {}
    /\ br_queue = <<>>
    /\ br_running = FALSE
    /\ br_stats = [messages_forwarded |-> 0, messages_transformed |-> 0, errors |-> 0,
                   active_bridges |-> 0]
    /\ br_published = 0
    /\ br_last = [routed |-> FALSE, msg |-> [protocol |-> "", topic |-> NoTopic, data |-> NoData],
                  calls |-> <<>>, raised |-> FALSE, failed |-> <<>>, errors |-> 0]

BridgeNext ==
    \/ \E p \in BrProtocols : RegisterAdapter(p)
    \/ \E rule \in BridgeCatalogue : AddBridge(rule)
    \/ \E n \in {"b1", "b2"} : RemoveBridge(n)
    \/ BridgeStart
    \/ BridgeStop
    \/ \E file \in MappingFiles : LoadMappings(file)
    \/ \E msg \in BrMessages : BridgePublish(msg)
    \/ ProcessMessage

\* ==========================================================================
\* Topic match of the bridge engine (bridge/engine.py)
\* ==========================================================================

\* bound of the topics and patterns tried
MaxLevels == 2

TopicLevels == {"a", "b"}

SeqsUpTo(S, n) == UNION {[1..k -> S] : k \in 1..n}

\* topics of one to MaxLevels levels
TmTopics == SeqsUpTo(TopicLevels, MaxLevels)

\* filters of one to MaxLevels levels: literals and '+', '#' only as the last
TmPatterns ==
    SeqsUpTo(TopicLevels \cup {"+"}, MaxLevels)
    \cup {Append(g, "#") : g \in {<<>>} \cup SeqsUpTo(TopicLevels \cup {"+"}, MaxLevels - 1)}

\* _topic_matches(topic, pattern), and _matches_mapping for a message of the
\* source protocol and a SOURCE_TO_TARGET mapping whose source_topic is pattern
TopicMatchCall(topic, pattern) ==
    /\ tm_called' = TRUE
    /\ tm_topic' = topic
    /\ tm_pattern' = pattern
    /\ tm_result' = TopicMatches(topic, pattern)
    /\ tm_mapping' = MatchesMapping("mqtt", topic,
                         Mapping("mqtt", pattern, "coap", TopicX, "source_to_target", <<>>))
    /\ UNCHANGED notTopicVars

TopicInit ==
    /\ tm_called = FALSE
    /\ tm_topic = <<>>
    /\ tm_pattern = <<>>
    /\ tm_result = FALSE
    /\ tm_mapping = FALSE

TopicNext ==
    \E topic \in TmTopics, pattern \in TmPatterns : TopicMatchCall(topic, pattern)

\* ==========================================================================
\* One TCP connection to the Modbus server (protocols/modbus.py, _handle_client)
\* ==========================================================================

\* bound of the connection model: the frames a client sends on one connection
MaxFrames == 2

\* a request frame as a client builds it: the MBAP header (transaction id, protocol
\* id 0, length = unit id byte + PDU, unit id) and the PDU
Frame(tid, unit, pdu) == PackH(tid) \o PackH(0) \o PackH(Len(pdu) + 1) \o <<unit>> \o pdu

McRequests == {ReadHoldingPdu(0, 1), WriteSinglePdu(0, 258)}

Min(a, b) == IF a < b THEN a ELSE b

Drop(bs, k) == SubSeq(bs, k + 1, Len(bs))

everythingButModbus == <<rulesVars, mqttVars, replayerVars, capturerVars, eventBusVars, bridgeVars, topicVars, bitReadVars, coapVars, faultVars, loadTestVars, bacnetVars, condEvalVars, tcpVars>>

\* a client connects: asyncio starts _handle_client for the connection
McConnect ==
    /\ ~mc_open
    /\ mc_open' = TRUE
    /\ mc_buf' = <<>>
    /\ mc_eof' = FALSE
    /\ mc_header' = <<>>
    /\ mc_sent' = <<>>
    /\ mc_out' = <<>>
    /\ UNCHANGED notMbConnVars

\* the client sends its next request frame
McSend(pdu) ==
    /\ mc_open /\ ~mc_eof
    /\ Len(mc_sent) < MaxFrames
    /\ mc_buf' = mc_buf \o Frame(Len(mc_sent) + 1, Unit, pdu)
    /\ mc_sent' = Append(mc_sent, [transaction_id |-> Len(mc_sent) + 1, unit_id |-> Unit, pdu |-> pdu])
    /\ UNCHANGED <<mc_open, mc_eof, mc_header, mc_out>>
    /\ UNCHANGED notMbConnVars

\* the client closes its side
McShutdown ==
    /\ mc_open /\ ~mc_eof
    /\ mc_eof' = TRUE
    /\ UNCHANGED <<mc_open, mc_buf, mc_header, mc_sent, mc_out>>
    /\ UNCHANGED notMbConnVars

\* header = await reader.read(7): StreamReader.read returns as soon as at least one
\* byte is there, with at most 7 of the bytes received so far (k of them), or b''
\* at end of stream. An empty header leaves the loop; a header of fewer than 7
\* bytes makes struct.unpack or header[6] raise, which leaves the loop too; the
\* writer is closed
McReadHeader(k) ==
    /\ mc_open /\ mc_header = <<>>
    /\ IF mc_buf = <<>>
       THEN /\ mc_eof
            /\ mc_open' = FALSE
            /\ UNCHANGED <<mc_buf, mc_header>>
       ELSE /\ k <= Len(mc_buf)
            /\ mc_buf' = Drop(mc_buf, k)
            /\ IF k < 7
               THEN mc_open' = FALSE /\ mc_header' = <<>>
               ELSE mc_open' = TRUE /\ mc_header' = SubSeq(mc_buf, 1, 7)
    /\ UNCHANGED <<mc_eof, mc_sent, mc_out>>
    /\ UNCHANGED notMbConnVars

\* the MBAP fields of the header read
HeaderTransactionId == UnpackH(mc_header, 0)
HeaderProtocolId == UnpackH(mc_header, 2)
HeaderLength == UnpackH(mc_header, 4)
HeaderUnitId == mc_header[7]

\* response_header + response_pdu as written; req is the PDU the response answers
ResponseFrame(pdu, resp) ==
    [transaction_id |-> HeaderTransactionId, protocol_id |-> HeaderProtocolId,
     length |-> Len(resp) + 1, unit_id |-> HeaderUnitId, pdu |-> resp, req |-> pdu]

\* the rest of the iteration with the PDU read: _process_request, and the response
\* frame is written when there is a response
McProcess(pdu) ==
    /\ ServeRequest(HeaderUnitId, pdu)
    /\ mc_out' = IF ProcessRequest(devices, HeaderUnitId, pdu).resp # <<>>
                 THEN Append(mc_out, ResponseFrame(pdu, ProcessRequest(devices, HeaderUnitId, pdu).resp))
                 ELSE mc_out
    /\ mc_header' = <<>>

\* pdu = await reader.read(length - 1): read(0) returns b'' at once, read(-1)
\* returns everything up to the end of the stream, and read(n) returns at most n of
\* the bytes received so far (k of them), b'' at the end of the stream
McReadPdu(k) ==
    /\ mc_open /\ mc_header # <<>>
    /\ IF HeaderLength - 1 = 0
       THEN McProcess(<<>>) /\ mc_buf' = mc_buf
       ELSE IF HeaderLength - 1 < 0
       THEN mc_eof /\ McProcess(mc_buf) /\ mc_buf' = <<>>
       ELSE IF mc_buf = <<>>
       THEN mc_eof /\ McProcess(<<>>) /\ mc_buf' = mc_buf
       ELSE /\ k <= Min(HeaderLength - 1, Len(mc_buf))
            /\ McProcess(SubSeq(mc_buf, 1, k))
            /\ mc_buf' = Drop(mc_buf, k)
    /\ UNCHANGED <<mc_open, mc_eof, mc_sent>>
    /\ UNCHANGED everythingButModbus

MbConnInit ==
    /\ mc_open = FALSE
    /\ mc_buf = <<>>
    /\ mc_eof = FALSE
    /\ mc_header = <<>>
    /\ mc_sent = <<>>
    /\ mc_out = <<>>

MbConnNext ==
    \/ AddDevice
    \/ McConnect
    \/ \E pdu \in McRequests : McSend(pdu)
    \/ McShutdown
    \/ \E k \in 1..7 : McReadHeader(k)
    \/ \E k \in 1..5 : McReadPdu(k)

\* ==========================================================================
\* Bit reads of the Modbus server (protocols/modbus.py)
\* ==========================================================================

\* bound of the bit read model: the quantities 1..MaxBitQuantity are all tried,
\* and the largest one the protocol allows
MaxBitQuantity == 17

BitQuantities == 1..MaxBitQuantity \cup {2000}
BitStarts == {0, 1, 65535}
\* the addresses of the bank whose values vary; get(i, False) answers for the rest
BankAddrs == {0, 8, 9, 65535}

\* a request FC01 or FC02 for (start, q) is processed with the bank as it is:
\* the branch of _process_request for the function code
BitRead(fc, bank, start, q) ==
    /\ ~bit_called
    /\ bit_called' = TRUE
    /\ bit_fc' = fc
    /\ bit_bank' = bank
    /\ bit_start' = start
    /\ bit_quantity' = q
    /\ bit_resp' = IF fc = 1
                   THEN IF ReadBitsRaises(ReadCoilsPdu(start, q))
                        THEN ExceptionPdu(1, 4)
                        ELSE ReadCoils(bank, ReadCoilsPdu(start, q))
                   ELSE IF ReadBitsRaises(ReadDiscreteInputsPdu(start, q))
                        THEN ExceptionPdu(2, 4)
                        ELSE ReadDiscreteInputs(bank, ReadDiscreteInputsPdu(start, q))
    /\ UNCHANGED notBitReadVars

\* the response is handed back
BitReadReturn ==
    /\ bit_called
    /\ bit_called' = FALSE
    /\ bit_fc' = 1
    /\ bit_bank' = EmptyDict
    /\ bit_start' = 0
    /\ bit_quantity' = 0
    /\ bit_resp' = <<>>
    /\ UNCHANGED notBitReadVars

BitReadInit ==
    /\ bit_called = FALSE
    /\ bit_fc = 1
    /\ bit_bank = EmptyDict
    /\ bit_start = 0
    /\ bit_quantity = 0
    /\ bit_resp = <<>>

BitReadNext ==
    \/ \E fc \in {1, 2}, bank \in [BankAddrs -> BOOLEAN], start \in BitStarts, q \in BitQuantities :
           BitRead(fc, bank, start, q)
    \/ BitReadReturn

\* ==========================================================================
\* CoAP server (protocols/coap.py)
\* ==========================================================================

\* bound of the CoAP model: the entries of one resource's observers list
MaxObservers == 2

\* two of the resources of _initialize_resources, with their observable flag
CoapObservable == [p \in {"/", "/temperature"} |-> p = "/temperature"]

\* the path _handle_request builds from the Uri-Path options of a request
CoapPaths == {"/", "/temperature", "temperature"}

\* the Observe options of a request as _get_option_value returns them: no option
\* (None, here <<>>), or the list of the option values, each a byte string
ObserveOptions == {<<>>, << <<0>> >>, << <<>> >>, << <<1>> >>}

CoapTokens == {1, 2}
CoapAddrs == {"c1", "c2"}

\* observe_options and observe_options[0][0] == 0: indexing an empty option
\* value raises IndexError
ObserveRaises(obs) == obs # <<>> /\ obs[1] = <<>>
IsObserving(obs) == obs # <<>> /\ obs[1] # <<>> /\ obs[1][1] = 0

\* CoAPServer.start: running is set, the notification task is created
CoapStart ==
    /\ coap_running' = TRUE
    /\ coap_notifier' = TRUE
    /\ UNCHANGED <<coap_observers, coap_raised, coap_notified>>
    /\ UNCHANGED notCoapVars

\* CoAPServer.stop: the loops end at their next test of running
CoapStop ==
    /\ coap_running' = FALSE
    /\ coap_notifier' = FALSE
    /\ UNCHANGED <<coap_observers, coap_raised, coap_notified>>
    /\ UNCHANGED notCoapVars

\* _process_request for a GET of path with the Observe options obs, token and
\* remote address: _handle_get. An unknown path makes _create_response fail on the
\* float code value; on a resource, an observing request is appended to the
\* observers, nothing is ever removed from them, and resource.content_format, which
\* CoAPResource does not have, then raises AttributeError. The error response
\* fails on its float code value as well, so the call ends with an exception
CoapGet(path, obs, token, addr) ==
    /\ coap_observers' =
           IF path \in DOMAIN coap_observers /\ ~ObserveRaises(obs) /\ IsObserving(obs)
           THEN [coap_observers EXCEPT ![path] = Append(@, <<token, addr>>)]
           ELSE coap_observers
    /\ path \in DOMAIN coap_observers /\ IsObserving(obs)
           => Len(coap_observers[path]) < MaxObservers
    /\ coap_raised' = TRUE
    /\ UNCHANGED <<coap_running, coap_notifier, coap_notified>>
    /\ UNCHANGED notCoapVars

\* one round of _notify_observers: the first observable resource with observers
\* makes _serialize_value(resource.value, resource.content_format) raise
\* AttributeError, which the loop does not catch: the task ends and no
\* notification is created
CoapNotify ==
    /\ coap_running /\ coap_notifier
    /\ coap_notifier' = ~(\E p \in DOMAIN coap_observers :
                              coap_observers[p] # <<>> /\ CoapObservable[p])
    /\ UNCHANGED <<coap_running, coap_observers, coap_raised, coap_notified>>
    /\ UNCHANGED notCoapVars

CoapInit ==
    /\ coap_running = FALSE
    /\ coap_observers = [p \in DOMAIN CoapObservable |-> <<>>]
    /\ coap_notifier = FALSE
    /\ coap_raised = FALSE
    /\ coap_notified = <<>>

CoapNext ==
    \/ CoapStart
    \/ CoapStop
    \/ \E path \in CoapPaths, obs \in ObserveOptions, token \in CoapTokens, addr \in CoapAddrs :
           CoapGet(path, obs, token, addr)
    \/ CoapNotify

\* ==========================================================================
\* Fault injector (tools/fault_injector.py)
\* ==========================================================================

FaultIds == {"f1", "f2"}
FaultTypes == {"packet_loss", "latency_spike", "corruption"}
\* Fault.probability and the values of random.random(), in hundredths: the
\* draws lie in [0, 1)
Probabilities == {50, 100}
Draws == {0, 50, 99}

\* a Fault as a client constructs it: enabled defaults to False
NewFault(id, type, p) == [id |-> id, fault_type |-> type, enabled |-> FALSE, probability |-> p]

NoFault == [id |-> "", fault_type |-> "", enabled |-> FALSE, probability |-> 0]
NoCall == [fault_id |-> "", fault |-> NoFault, modify |-> FALSE, details |-> "None"]

\* FaultInjector.add_fault
AddFault(f) ==
    /\ fi_faults' = DictSet(fi_faults, f.id, f)
    /\ fi_last' = NoCall
    /\ UNCHANGED <<fi_active, fi_running>>
    /\ UNCHANGED notFaultVars

\* FaultInjector.remove_fault
RemoveFault(id) ==
    /\ fi_faults' = DictDrop(fi_faults, {id})
    /\ fi_active' = IF id \in DOMAIN fi_faults THEN fi_active \ {id} ELSE fi_active
    /\ fi_last' = NoCall
    /\ UNCHANGED fi_running
    /\ UNCHANGED notFaultVars

\* FaultInjector.enable_fault
EnableFault(id) ==
    /\ fi_faults' = IF id \in DOMAIN fi_faults
                    THEN [fi_faults EXCEPT ![id].enabled = TRUE] ELSE fi_faults
    /\ fi_active' = IF id \in DOMAIN fi_faults THEN fi_active \cup {id} ELSE fi_active
    /\ fi_last' = NoCall
    /\ UNCHANGED fi_running
    /\ UNCHANGED notFaultVars

\* FaultInjector.disable_fault
DisableFault(id) ==
    /\ fi_faults' = IF id \in DOMAIN fi_faults
                    THEN [fi_faults EXCEPT ![id].enabled = FALSE] ELSE fi_faults
    /\ fi_active' = IF id \in DOMAIN fi_faults THEN fi_active \ {id} ELSE fi_active
    /\ fi_last' = NoCall
    /\ UNCHANGED fi_running
    /\ UNCHANGED notFaultVars

\* FaultInjector.start
FaultStart ==
    /\ fi_running' = TRUE
    /\ fi_last' = NoCall
    /\ UNCHANGED <<fi_faults, fi_active>>
    /\ UNCHANGED notFaultVars

\* FaultInjector.stop: every fault is disabled
FaultStop ==
    /\ fi_running' = FALSE
    /\ fi_faults' = [id \in DOMAIN fi_faults |-> [fi_faults[id] EXCEPT !.enabled = FALSE]]
    /\ fi_active' = {}
    /\ fi_last' = NoCall
    /\ UNCHANGED notFaultVars

\* the (decision, details) pair of should_modify_packet for the fault found (NoFault
\* when the id is unknown) and the value random.random() draws
ModifyDecision(fault, draw) ==
    IF fault = NoFault \/ ~fault.enabled THEN [modify |-> FALSE, details |-> "None"]
    ELSE IF fault.fault_type \in {"packet_loss", "connection_drop", "device_offline"}
         THEN [modify |-> FALSE, details |-> "None"]
    ELSE IF draw < fault.probability /\ fault.fault_type = "latency_spike"
         THEN [modify |-> TRUE, details |-> "delay_ms"]
    ELSE IF draw < fault.probability /\ fault.fault_type = "jitter"
         THEN [modify |-> TRUE, details |-> "jitter_ms"]
    ELSE IF draw < fault.probability /\ fault.fault_type = "corruption"
         THEN [modify |-> TRUE, details |-> "corrupt"]
    ELSE IF draw < fault.probability /\ fault.fault_type = "duplication"
         THEN [modify |-> TRUE, details |-> "duplicate"]
    ELSE [modify |-> FALSE, details |-> "None"]

\* FaultInjector.should_modify_packet
ShouldModifyPacket(id, draw) ==
    /\ LET fault == IF id \in DOMAIN fi_faults THEN fi_faults[id] ELSE NoFault
       IN fi_last' = [fault_id |-> id, fault |-> fault,
                      modify |-> ModifyDecision(fault, draw).modify,
                      details |-> ModifyDecision(fault, draw).details]
    /\ UNCHANGED <<fi_faults, fi_active, fi_running>>
    /\ UNCHANGED notFaultVars

FaultInit ==
    /\ fi_faults = [id \in {} |-> NoFault]
    /\ fi_active = {}
    /\ fi_running = FALSE
    /\ fi_last = NoCall

FaultNext ==
    \/ \E id \in FaultIds, type \in FaultTypes, p \in Probabilities : AddFault(NewFault(id, type, p))
    \/ \E id \in FaultIds : RemoveFault(id)
    \/ \E id \in FaultIds : EnableFault(id)
    \/ \E id \in FaultIds : DisableFault(id)
    \/ FaultStart
    \/ FaultStop
    \/ \E id \in FaultIds, draw \in Draws : ShouldModifyPacket(id, draw)

\* ==========================================================================
\* Load tester (tools/load_tester.py)
\* ==========================================================================

\* bounds of the load tester model: the requests recorded in one test, and the
\* virtual user tasks alive at one time
MaxSamples == 3
MaxUserTasks == 4

\* response times of the simulated requests, in ms
Latencies == {5, 20}
\* LoadTestConfig of a soak test: max_users
SoakUsers == {0, 1, 2, 4}

\* a rational number, for statistics.mean
Ratio(n, d) == [num |-> n, den |-> d]
Zero == Ratio(0, 1)

RECURSIVE SumOf(_)
SumOf(ts) == IF ts = <<>> THEN 0 ELSE Head(ts) + SumOf(Tail(ts))

RECURSIVE InsertAscending(_, _)
InsertAscending(sorted, x) ==
    IF sorted = <<>> THEN <<x>>
    ELSE IF Head(sorted) <= x THEN <<Head(sorted)>> \o InsertAscending(Tail(sorted), x)
    ELSE <<x>> \o sorted

\* sorted(times)
RECURSIVE SortedTimes(_)
SortedTimes(ts) ==
    IF ts = <<>> THEN <<>>
    ELSE InsertAscending(SortedTimes(SubSeq(ts, 1, Len(ts) - 1)), ts[Len(ts)])

\* sorted_times[int(len(sorted_times) * p / 100)]
Percentile(ts, p) == SortedTimes(ts)[(Len(ts) * p) \div 100 + 1]

\* LoadTestResult as start_test creates it: end_time None ("none"), metrics 0.0
NewResult ==
    [total_requests |-> 0, end_time |-> "none", avg |-> Zero, min |-> 0, max |-> 0,
     p95 |-> 0, p99 |-> 0, requests_per_second |-> Zero, errors_per_second |-> Zero]

\* the response time metrics of _calculate_metrics, set when times is not empty
TimeMetrics(res, ts) ==
    IF ts = <<>> THEN res
    ELSE [res EXCEPT !.avg = Ratio(SumOf(ts), Len(ts)),
                     !.min = SortedTimes(ts)[1],
                     !.max = SortedTimes(ts)[Len(ts)],
                     !.p95 = Percentile(ts, 95),
                     !.p99 = Percentile(ts, 99)]

\* _calculate_metrics raises: with total_requests > 0 it computes
\* self._current_test.end_time - self._current_test.start_time, and start_test
\* calls it while end_time is still None (TypeError)
CalculateRaises(res) == res.total_requests > 0 /\ res.end_time = "none"

\* LoadTestConfig: test_type, initial_users, max_users, burst_size and the
\* rounds of a burst test, test_duration_seconds // 10
Config(type, initial, max_users, burst, rounds) ==
    [test_type |-> type, initial_users |-> initial, max_users |-> max_users,
     burst_size |-> burst, rounds |-> rounds]

NoConfig == Config("none", 0, 0, 0, 0)

\* the spike and burst tests of the model
SpikeConfigs == {Config("spike", 1, 3, 0, 0), Config("spike", 2, 2, 0, 0)}
BurstConfigs == {Config("burst", 0, 0, b, r) : b \in {1, 3}, r \in {1, 2}}

\* _spawn_users: the tasks alive after the list has been brought to count
\* users, the excess popped and cancelled, the missing ones created
SpawnUsers(tasks, users, count) ==
    IF users > count THEN tasks - (users - count) ELSE tasks + (count - users)

\* len(self._users[::2])
EverySecond(users) == (users + 1) \div 2

\* len(self._users[:-config.burst_size // 2]): the stop is (-burst_size) // 2
BurstSlice(users, burst_size) ==
    LET stop == 0 - ((burst_size + 1) \div 2)
    IN IF stop = 0 THEN 0
       ELSE IF users + stop > 0 THEN users + stop ELSE 0

\* start_test up to the first sleep of its schedule: the result is created and
\* _spawn_users brings the virtual users to count.  One call of start_test is
\* followed at a time.
BeginTest(config, count) ==
    /\ lt_phase # "schedule"
    /\ SpawnUsers(lt_tasks, lt_users, count) <= MaxUserTasks
    /\ lt_running' = TRUE
    /\ lt_phase' = "schedule"
    /\ lt_users' = count
    /\ lt_tasks' = SpawnUsers(lt_tasks, lt_users, count)
    /\ lt_config' = config
    /\ lt_step' = 0
    /\ lt_times' = <<>>
    /\ lt_ok' = 0
    /\ lt_failed' = 0
    /\ lt_result' = NewResult

\* start_test of a soak test up to the sleep of _soak_test, with max_users // 2
\* users
StartTest(max_users) ==
    /\ BeginTest(Config("soak", 0, max_users, 0, 0), max_users \div 2)
    /\ UNCHANGED notLoadTestVars

\* start_test of a spike test up to the sleep of the initial low load
StartSpike(config) ==
    /\ BeginTest(config, config.initial_users)
    /\ UNCHANGED notLoadTestVars

\* start_test of a burst test up to the sleep after the first burst
StartBurst(config) ==
    /\ BeginTest(config, config.burst_size)
    /\ UNCHANGED notLoadTestVars

\* _spike_test after its first sleep: the spike to max_users
SpikeToMax ==
    /\ lt_phase = "schedule"
    /\ lt_config.test_type = "spike"
    /\ lt_step = 0
    /\ lt_step' = 1
    /\ SpawnUsers(lt_tasks, lt_users, lt_config.max_users) <= MaxUserTasks
    /\ IF lt_running
       THEN /\ lt_users' = lt_config.max_users
            /\ lt_tasks' = SpawnUsers(lt_tasks, lt_users, lt_config.max_users)
       ELSE UNCHANGED <<lt_users, lt_tasks>>
    /\ UNCHANGED <<lt_running, lt_phase, lt_times, lt_ok, lt_failed, lt_result, lt_config>>
    /\ UNCHANGED notLoadTestVars

\* _spike_test after its second sleep: self._users = self._users[::2]
SpikeCoolDown ==
    /\ lt_phase = "schedule"
    /\ lt_config.test_type = "spike"
    /\ lt_step = 1
    /\ lt_step' = 2
    /\ lt_users' = IF lt_running THEN EverySecond(lt_users) ELSE lt_users
    /\ UNCHANGED <<lt_running, lt_phase, lt_times, lt_ok, lt_failed, lt_result, lt_config,
                   lt_tasks>>
    /\ UNCHANGED notLoadTestVars

\* _burst_test after the sleep that follows a burst:
\* self._users = self._users[:-config.burst_size // 2]
BurstCoolDown ==
    /\ lt_phase = "schedule"
    /\ lt_config.test_type = "burst"
    /\ lt_step < 2 * lt_config.rounds
    /\ lt_step % 2 = 0
    /\ lt_step' = lt_step + 1
    /\ lt_users' = BurstSlice(lt_users, lt_config.burst_size)
    /\ UNCHANGED <<lt_running, lt_phase, lt_times, lt_ok, lt_failed, lt_result, lt_config,
                   lt_tasks>>
    /\ UNCHANGED notLoadTestVars

\* _burst_test after the sleep of a cool down: the loop ends, breaks because
\* _running is false, or spawns the next burst
BurstAgain ==
    /\ lt_phase = "schedule"
    /\ lt_config.test_type = "burst"
    /\ lt_step < 2 * lt_config.rounds
    /\ lt_step % 2 = 1
    /\ SpawnUsers(lt_tasks, lt_users, lt_config.burst_size) <= MaxUserTasks
    /\ IF lt_step + 1 = 2 * lt_config.rounds \/ ~lt_running
       THEN /\ lt_step' = 2 * lt_config.rounds
            /\ UNCHANGED <<lt_users, lt_tasks>>
       ELSE /\ lt_step' = lt_step + 1
            /\ lt_users' = lt_config.burst_size
            /\ lt_tasks' = SpawnUsers(lt_tasks, lt_users, lt_config.burst_size)
    /\ UNCHANGED <<lt_running, lt_phase, lt_times, lt_ok, lt_failed, lt_result, lt_config>>
    /\ UNCHANGED notLoadTestVars

\* the schedule of the test has returned to start_test
ScheduleDone ==
    \/ lt_config.test_type = "soak"
    \/ lt_config.test_type = "spike" /\ lt_step = 2
    \/ lt_config.test_type = "burst" /\ lt_step = 2 * lt_config.rounds

\* one iteration of _virtual_user: the handler returned success after time ms
\* and the result is recorded
UserRequest(time, success) ==
    /\ lt_tasks > 0
    /\ lt_running
    /\ lt_phase # "idle"
    /\ Len(lt_times) < MaxSamples
    /\ lt_times' = Append(lt_times, time)
    /\ lt_result' = [lt_result EXCEPT !.total_requests = @ + 1]
    /\ lt_ok' = IF success THEN lt_ok + 1 ELSE lt_ok
    /\ lt_failed' = IF success THEN lt_failed ELSE lt_failed + 1
    /\ UNCHANGED <<lt_running, lt_phase, lt_users, lt_tasks, lt_config, lt_step>>
    /\ UNCHANGED notLoadTestVars

\* a _virtual_user finds _running false at the head of its loop and returns
UserReturns ==
    /\ ~lt_running
    /\ lt_tasks > 0
    /\ lt_tasks' = lt_tasks - 1
    /\ UNCHANGED <<lt_running, lt_phase, lt_users, lt_times, lt_ok, lt_failed, lt_result,
                   lt_config, lt_step>>
    /\ UNCHANGED notLoadTestVars

\* stop_test: the tasks of the list are cancelled and the list is cleared
StopTest ==
    /\ lt_running' = FALSE
    /\ lt_users' = 0
    /\ lt_tasks' = lt_tasks - lt_users
    /\ UNCHANGED <<lt_phase, lt_times, lt_ok, lt_failed, lt_result, lt_config, lt_step>>
    /\ UNCHANGED notLoadTestVars

\* the schedule is over: start_test calls _calculate_metrics, sets end_time
\* and returns the test id.  Neither _running nor the users are touched.
EndOfSchedule ==
    /\ lt_phase = "schedule"
    /\ ScheduleDone
    /\ IF CalculateRaises(lt_result)
       THEN /\ lt_result' = TimeMetrics(lt_result, lt_times)
            /\ lt_phase' = "raised"
       ELSE /\ lt_result' = [TimeMetrics(lt_result, lt_times) EXCEPT !.end_time = "set"]
            /\ lt_phase' = "returned"
    /\ UNCHANGED <<lt_running, lt_users, lt_times, lt_ok, lt_failed, lt_tasks, lt_config,
                   lt_step>>
    /\ UNCHANGED notLoadTestVars

LoadTestInit ==
    /\ lt_running = FALSE
    /\ lt_phase = "idle"
    /\ lt_users = 0
    /\ lt_times = <<>>
    /\ lt_ok = 0
    /\ lt_failed = 0
    /\ lt_result = NewResult
    /\ lt_tasks = 0
    /\ lt_config = NoConfig
    /\ lt_step = 0

LoadTestNext ==
    \/ \E m \in SoakUsers : StartTest(m)
    \/ \E config \in SpikeConfigs : StartSpike(config)
    \/ \E config \in BurstConfigs : StartBurst(config)
    \/ SpikeToMax
    \/ SpikeCoolDown
    \/ BurstCoolDown
    \/ BurstAgain
    \/ UserReturns
    \/ \E t \in Latencies, ok \in BOOLEAN : UserRequest(t, ok)
    \/ StopTest
    \/ EndOfSchedule

\* ==========================================================================
\* BACnet/IP server (protocols/bacnet.py)
\* ==========================================================================

\* the device _add_default_device creates, and BACnetDevice.vendor_identifier
DefaultDeviceId == 12345
DefaultVendor == 999
\* BACnetService.I_AM
I_AM == 9
\* the limit bytes ff ff of a Who-Is, decoded as None
NoLimit == 65535

\* the devices given to add_device, as (device_id, vendor_identifier)
BnDeviceIds == {0, 5, DefaultDeviceId}
BnVendors == {DefaultVendor, 7}

\* the limits a Who-Is carries in apdu[8:10] and apdu[10:12]
WhoIsLimits == {0, 1, 5, 20000, NoLimit}

\* a Who-Is APDU: ranged when len(apdu) >= 10, then with its two limits
WhoIsRequests ==
    {[ranged |-> FALSE, low |-> NoLimit, high |-> NoLimit]}
    \cup {[ranged |-> TRUE, low |-> l, high |-> h] : l, h \in WhoIsLimits}

\* `if low_device and ...`: the limit is neither None nor 0
Truthy(limit) == limit # NoLimit /\ limit # 0

\* the range test of _handle_who_is looks up self.devices[0]: KeyError when
\* no device has id 0
WhoIsRaises(devs, req) ==
    /\ req.ranged
    /\ Truthy(req.low) \/ Truthy(req.high)
    /\ 0 \notin DOMAIN devs

\* the range test of _handle_who_is returns None; devices[0].device_id is 0
WhoIsOutOfRange(req) ==
    /\ req.ranged
    /\ (Truthy(req.low) /\ 0 < req.low) \/ (Truthy(req.high) /\ 0 > req.high)

\* _create_i_am_response: the I-Am built for self.devices.get(12345); besides
\* fixed bytes and the object count it carries the vendor identifier
IAmResponse(devs) ==
    [service |-> I_AM, vendor_identifier |-> devs[DefaultDeviceId]]

NoWhoIs == [called |-> FALSE, req |-> [ranged |-> FALSE, low |-> NoLimit, high |-> NoLimit],
            outcome |-> "none", responses |-> <<>>]

\* add_device
BnAddDevice(id, vendor) ==
    /\ bn_devices' = [d \in DOMAIN bn_devices \cup {id} |->
                         IF d = id THEN vendor ELSE bn_devices[d]]
    /\ UNCHANGED <<bn_running, bn_last>>
    /\ UNCHANGED notBacnetVars

\* start
BnStart ==
    /\ bn_running' = TRUE
    /\ UNCHANGED <<bn_devices, bn_last>>
    /\ UNCHANGED notBacnetVars

\* stop
BnStop ==
    /\ bn_running' = FALSE
    /\ UNCHANGED <<bn_devices, bn_last>>
    /\ UNCHANGED notBacnetVars

\* _handle_who_is, called by _handle_client for a Who-Is a client sent
HandleWhoIs(req) ==
    /\ bn_running
    /\ bn_last' =
          IF WhoIsRaises(bn_devices, req)
          THEN [called |-> TRUE, req |-> req, outcome |-> "raised", responses |-> <<>>]
          ELSE IF WhoIsOutOfRange(req) \/ DefaultDeviceId \notin DOMAIN bn_devices
          THEN [called |-> TRUE, req |-> req, outcome |-> "none", responses |-> <<>>]
          ELSE [called |-> TRUE, req |-> req, outcome |-> "i_am",
                responses |-> <<IAmResponse(bn_devices)>>]
    /\ UNCHANGED <<bn_devices, bn_running>>
    /\ UNCHANGED notBacnetVars

\* BACnetIPRouter(): the default device is added
BacnetInit ==
    /\ bn_devices = [d \in {DefaultDeviceId} |-> DefaultVendor]
    /\ bn_running = FALSE
    /\ bn_last = NoWhoIs

BacnetNext ==
    \/ \E id \in BnDeviceIds, vendor \in BnVendors : BnAddDevice(id, vendor)
    \/ BnStart
    \/ BnStop
    \/ \E req \in WhoIsRequests : HandleWhoIs(req)

\* ==========================================================================
\* Condition.evaluate (bridge/rules.py)
\* ==========================================================================

\* ConditionOperator, without regex: patterns are not modelled
CondOperators ==
    {"eq", "ne", "gt", "lt", "gte", "lte", "contains", "not_contains", "starts_with",
     "ends_with", "in", "not_in", "between", "is_null", "is_not_null"}

\* the field values and operands of the calls: non-negative integers and None
CondFieldValues == {NoneValue, 1, 9, 19}
CondScalars == {1, 9}
CondLists == {{1}, {9, 19}}

DigitChars == <<"0", "1", "2", "3", "4", "5", "6", "7", "8", "9">>

\* str(x) as its characters, for None and for a non-negative integer
RECURSIVE StrOf(_)
StrOf(x) ==
    IF x = NoneValue THEN <<"N", "o", "n", "e">>
    ELSE IF x < Len(DigitChars) THEN <<DigitChars[x + 1]>>
    ELSE StrOf(x \div Len(DigitChars)) \o <<DigitChars[(x % Len(DigitChars)) + 1]>>

\* a in b of two strings
IsSubstring(a, b) ==
    \E i \in 0..Len(b) : i + Len(a) <= Len(b) /\ SubSeq(b, i + 1, i + Len(a)) = a

\* Condition.evaluate on the resolved field value: the chain of branches, with
\* the TypeError of an ordering comparison with None caught and turned into
\* False, and False after the chain for an operator that has no branch
CondEvaluate(op, fv, value, second) ==
    CASE op = "eq" -> fv = value
      [] op = "ne" -> fv # value
      [] op = "gt" -> fv # NoneValue /\ fv > value
      [] op = "lt" -> fv # NoneValue /\ fv < value
      [] op = "gte" -> fv # NoneValue /\ fv >= value
      [] op = "lte" -> fv # NoneValue /\ fv <= value
      [] op = "contains" -> IsSubstring(StrOf(value), StrOf(fv))
      [] op = "between" -> fv # NoneValue /\ value <= fv /\ fv <= second
      [] op = "is_null" -> fv = NoneValue
      [] op = "is_not_null" -> fv # NoneValue
      [] OTHER -> FALSE

\* the operand of a call: a list for in and not_in
CondOperands(op) == IF op \in {"in", "not_in"} THEN CondLists ELSE CondScalars

\* a call of Condition.evaluate
CondCall(op, fv, value, second) ==
    /\ ~ce_called
    /\ ce_called' = TRUE
    /\ ce_op' = op
    /\ ce_field' = fv
    /\ ce_value' = value
    /\ ce_second' = second
    /\ ce_result' = CondEvaluate(op, fv, value, second)
    /\ UNCHANGED notCondEvalVars

\* the caller goes on
CondReturn ==
    /\ ce_called
    /\ ce_called' = FALSE
    /\ ce_op' = "eq"
    /\ ce_field' = NoneValue
    /\ ce_value' = NoneValue
    /\ ce_second' = NoneValue
    /\ ce_result' = FALSE
    /\ UNCHANGED notCondEvalVars

CondEvalInit ==
    /\ ce_called = FALSE
    /\ ce_op = "eq"
    /\ ce_field = NoneValue
    /\ ce_value = NoneValue
    /\ ce_second = NoneValue
    /\ ce_result = FALSE

CondEvalNext ==
    \/ \E op \in CondOperators, fv \in CondFieldValues, second \in CondScalars :
          \E value \in CondOperands(op) : CondCall(op, fv, value, second)
    \/ CondReturn

\* ==========================================================================
\* Raw TCP server (protocols/tcp.py)
\* ==========================================================================

\* the clients that connect in the model
MaxTcpClients == 4
\* TCPServerConfig.max_connections of the modelled server
TcpMaxConnections == 2

TcpConnIds == 1..MaxTcpClients

\* max(0, self._stats["active_connections"] - 1)
DecrementActive(n) == IF n - 1 > 0 THEN n - 1 ELSE 0

\* active_connections after _close_connection has run k times
RECURSIVE DecrementActiveTimes(_, _)
DecrementActiveTimes(n, k) ==
    IF k = 0 THEN n ELSE DecrementActiveTimes(DecrementActive(n), k - 1)

\* TCPServer.start
TcpStart ==
    /\ tcp_running' = TRUE
    /\ UNCHANGED <<tcp_connections, tcp_active, tcp_counter, tcp_handlers>>
    /\ UNCHANGED notTcpVars

\* TCPServer.stop: _close_connection for every connection of the table
TcpStop ==
    /\ tcp_running' = FALSE
    /\ tcp_connections' = {}
    /\ tcp_active' = DecrementActiveTimes(tcp_active, Cardinality(tcp_connections))
    /\ UNCHANGED <<tcp_counter, tcp_handlers>>
    /\ UNCHANGED notTcpVars

\* _handle_client up to its reading loop: the connection is rejected when the
\* table is full, and entered in the table and counted otherwise
TcpConnect ==
    /\ tcp_running
    /\ tcp_counter < MaxTcpClients
    /\ tcp_counter' = tcp_counter + 1
    /\ IF Cardinality(tcp_connections) >= TcpMaxConnections
       THEN UNCHANGED <<tcp_connections, tcp_active, tcp_handlers>>
       ELSE /\ tcp_connections' = tcp_connections \cup {tcp_counter + 1}
            /\ tcp_active' = tcp_active + 1
            /\ tcp_handlers' = tcp_handlers \cup {tcp_counter + 1}
    /\ UNCHANGED tcp_running
    /\ UNCHANGED notTcpVars

\* _close_connection: the entry is deleted if it is there, and the statistic
\* is decremented in either case
CloseConnection(id) ==
    /\ tcp_connections' = tcp_connections \ {id}
    /\ tcp_active' = DecrementActive(tcp_active)

\* the reading loop of _handle_client ends (end of stream, a timeout, an
\* exception or running found false) and its finally block runs
TcpDisconnect(id) ==
    /\ id \in tcp_handlers
    /\ CloseConnection(id)
    /\ tcp_handlers' = tcp_handlers \ {id}
    /\ UNCHANGED <<tcp_running, tcp_counter>>
    /\ UNCHANGED notTcpVars

\* TCPServer.close_connection
TcpCloseConnection(id) ==
    /\ IF id \in tcp_connections
       THEN CloseConnection(id)
       ELSE UNCHANGED <<tcp_connections, tcp_active>>
    /\ UNCHANGED <<tcp_running, tcp_counter, tcp_handlers>>
    /\ UNCHANGED notTcpVars

TcpInit ==
    /\ tcp_running = FALSE
    /\ tcp_connections = {}
    /\ tcp_active = 0
    /\ tcp_counter = 0
    /\ tcp_handlers = {}

TcpNext ==
    \/ TcpStart
    \/ TcpStop
    \/ TcpConnect
    \/ \E id \in TcpConnIds : TcpDisconnect(id)
    \/ \E id \in TcpConnIds : TcpCloseConnection(id)

\* ==========================================================================
\* Specifications
\* ==========================================================================

Init == RulesInit /\ ModbusInit /\ MqttInit /\ ReplayerInit /\ CapturerInit /\ EventBusInit /\ BridgeInit /\ TopicInit /\ MbConnInit /\ BitReadInit /\ CoapInit /\ FaultInit /\ LoadTestInit /\ BacnetInit /\ CondEvalInit /\ TcpInit

\* the initial state with the capture buffer at its full size
InitOne == Init /\ cap_max = MaxPackets

Next ==
    \/ RulesNext
    \/ ModbusNext
    \/ MqttNext
    \/ ReplayerNext
    \/ CapturerNext
    \/ EventBusNext
    \/ BridgeNext
    \/ TopicNext
    \/ MbConnNext
    \/ BitReadNext
    \/ CoapNext
    \/ FaultNext
    \/ LoadTestNext
    \/ BacnetNext
    \/ CondEvalNext
    \/ TcpNext

Spec == Init /\ [][Next]_vars

SpecRules == InitOne /\ [][RulesNext]_vars

SpecModbus == InitOne /\ [][ModbusNext]_vars

SpecMqtt == InitOne /\ [][MqttNext]_vars

SpecReplayer == InitOne /\ [][ReplayerNext]_vars

\* a step of a replay task.  The event loop runs every task that is ready: a
\* created task is started, a sleep ends, an awaited callback returns.
TaskStep ==
    \E i \in 1..Len(rp_tasks) :
        \/ TaskWake(i)
        \/ TaskHead(i)
        \/ \E suspends \in BOOLEAN : TaskSend(i, suspends)

SpecReplayerFair == InitOne /\ [][ReplayerNext]_vars /\ WF_vars(TaskStep)

SpecCapturer == Init /\ [][CapturerNext]_vars

SpecEventBus == InitOne /\ [][EventBusNext]_vars
SpecReentrant == InitOne /\ [][ReentrantNext]_vars

SpecBridge == InitOne /\ [][BridgeNext]_vars

SpecTopic == Init /\ [][TopicNext]_vars

SpecMbConn == InitOne /\ [][MbConnNext]_vars

SpecBitRead == InitOne /\ [][BitReadNext]_vars

SpecCoap == InitOne /\ [][CoapNext]_vars

SpecFault == InitOne /\ [][FaultNext]_vars

SpecLoadTest == InitOne /\ [][LoadTestNext]_vars

SpecBacnet == InitOne /\ [][BacnetNext]_vars

SpecCondEval == InitOne /\ [][CondEvalNext]_vars

SpecTcp == InitOne /\ [][TcpNext]_vars

\* ==========================================================================
\* Claims
\* ==========================================================================

\* C1: a rule with cooldown_seconds = T > 0 never fires twice less than T seconds
\* apart, whether it fires through evaluate_data or through trigger
C1_CooldownRespected ==
    \A i \in 1..Len(rules) :
        (rules[i].cooldown_seconds > 0 /\ prev_triggered[rules[i].name] # NoTime)
            => rules[i].last_triggered - prev_triggered[rules[i].name]
                   >= rules[i].cooldown_seconds

\* C2 (as stated): after an answered FC06 write of v to address a, an FC03 read of a
\* with quantity 1 returns v as long as no other client write to a came in between
C2_RoundTripClientOnly ==
    \A a \in DOMAIN w_client :
        (mb_last.unit = Unit /\ mb_last.pdu = ReadHoldingPdu(a, 1))
            => mb_last.resp = <<3, 2>> \o PackH(w_client[a])

\* C2 (amended): the same, as long as nothing else stored to the register in
\* between: no other client write and no round of the data generator
C2_RoundTrip ==
    \A a \in DOMAIN w_any :
        (mb_last.unit = Unit /\ mb_last.pdu = ReadHoldingPdu(a, 1))
            => /\ Len(mb_last.resp) = 4
               /\ mb_last.resp[1] = 3
               /\ mb_last.resp[2] = 2
               /\ mb_last.resp[3] * 256 + mb_last.resp[4] = w_any[a]

C2_Witness ==
    /\ 65535 \in DOMAIN w_any
    /\ w_any[65535] = 258
    /\ mb_last.unit = Unit
    /\ mb_last.pdu = ReadHoldingPdu(65535, 1)
    /\ mb_last.resp = <<3, 2, 1, 2>>

\* the PUBLISH packets written to a connection
PublishesWritten(conn) ==
    Cardinality({i \in 1..Len(mq_written[conn]) : mq_written[conn][i] = PUBLISH})

\* C3: once a connection has sent CONNECT and then SUBSCRIBE for a filter at QoS 0,
\* every PUBLISH the broker receives on a matching topic is written to that
\* connection exactly once, and none is written to a connection without a
\* matching subscription
C3_PublishDelivered ==
    \A c \in mq_conns : PublishesWritten(c) = mq_expected[c]

\* C4: after pause_replay() the current packet index does not change and no
\* packet is emitted until resume_replay() is called (resume then continues from
\* the index that was current at the pause)
C4_PauseFreezes ==
    [][rp_paused /\ rp_paused' => rp_current' = rp_current /\ rp_emitted' = rp_emitted]_vars

\* the last n elements of a sequence
LastN(ps, n) == SubSeq(ps, Len(ps) - n + 1, Len(ps))

\* C5: the buffer never holds more than max_packets packets, and it equals the
\* most recent min(n, max_packets) of the n packets stored, in capture order
C5_BufferBounded ==
    /\ Len(cap_packets) <= cap_max
    /\ cap_packets = LastN(cap_stored, IF Len(cap_stored) < cap_max
                                       THEN Len(cap_stored) ELSE cap_max)

\* C6: the sequence numbers embedded in the ids of the packets in the buffer
\* strictly increase in capture order, so no two packets the capturer returns
\* share an id, whatever start, stop, capture_packet and clear_capture calls
\* were made
C6_IdsIncrease ==
    \A i, j \in 1..Len(cap_packets) :
        i < j => /\ IdSeq(cap_packets[i].id) < IdSeq(cap_packets[j].id)
                 /\ cap_packets[i].id # cap_packets[j].id

\* the capturer is stopped with two captured packets in the buffer, numbered
\* 1 and 2
C6_Witness ==
    /\ ~cap_running
    /\ Len(cap_packets) = 2
    /\ IdSeq(cap_packets[1].id) = 1
    /\ IdSeq(cap_packets[2].id) = 2

\* C7: when an event is published, the handlers subscribed to its type are
\* invoked in descending order of the priority given to subscribe(), handlers of
\* equal priority in the order in which they subscribed
C7_PriorityOrder ==
    ~eb_delivering => eb_invoked = eb_expected

\* the number of occurrences of x in a sequence
Occurrences(xs, x) == Cardinality({i \in 1..Len(xs) : xs[i] = x})

\* C8: if a handler raises while an event is delivered, every other handler is
\* still invoked exactly once for each of its subscriptions to the event's type,
\* and publish() completes without raising
C8_RaiseIsolated ==
    /\ ~eb_raised
    /\ (~eb_delivering /\ eb_raising # {})
          => \A h \in Handlers : Occurrences(eb_invoked, h) = Occurrences(eb_expected, h)

\* a publish has returned in which h2, called first, raised and h1 was called
\* after it
C8_Witness ==
    /\ ~eb_delivering
    /\ ~eb_raised
    /\ eb_raising = {"h2"}
    /\ eb_invoked = <<"h2", "h1">>

\* the message is on the source side / the target side of a mapping, by the
\* mapping's direction and MQTT wildcard matching of its topic
OnSourceSide(msg, m) ==
    /\ m.direction \in {"source_to_target", "bidirectional"}
    /\ msg.protocol = m.source_protocol /\ MqttMatch(m.source_topic, msg.topic)
OnTargetSide(msg, m) ==
    /\ m.direction \in {"target_to_source", "bidirectional"}
    /\ msg.protocol = m.target_protocol /\ MqttMatch(m.target_topic, msg.topic)

\* every condition of a bridge holds of the data of a message
ConditionsHold(cs, data) ==
    \A i \in 1..Len(cs) : ConditionEvaluate(cs[i], data)

\* C9: a message taken from the queue is forwarded to the target adapter at most
\* once for each mapping of each bridge, and not at all for a mapping that does
\* not match it or a bridge whose conditions do not hold of it
C9_AtMostOnce ==
    \A i, j \in 1..Len(br_last.calls) :
        LET c == br_last.calls[i] d == br_last.calls[j] IN
        /\ (c.bridge = d.bridge /\ c.index = d.index) => i = j
        /\ OnSourceSide(br_last.msg, c.mapping) \/ OnTargetSide(br_last.msg, c.mapping)
        /\ ConditionsHold(c.conditions, br_last.msg.data)

\* C10: a message forwarded for a BIDIRECTIONAL mapping goes to (target_protocol,
\* target_topic) when it matched the source side and to (source_protocol,
\* source_topic) when it matched the target side
C10_BidirOtherSide ==
    \A i \in 1..Len(br_last.calls) :
        LET c == br_last.calls[i] m == br_last.calls[i].mapping IN
        m.direction = "bidirectional" =>
            /\ OnSourceSide(br_last.msg, m) =>
                   c.protocol = m.target_protocol /\ c.topic = m.target_topic
            /\ OnTargetSide(br_last.msg, m) =>
                   c.protocol = m.source_protocol /\ c.topic = m.source_topic

\* C11: for every topic and filter, _topic_matches, and _matches_mapping for a
\* mapping whose topic is the filter, is true exactly when the filter matches
\* the topic under the MQTT wildcard rules
C11_TopicMatch ==
    tm_called => /\ tm_result = MqttMatch(tm_pattern, tm_topic)
                 /\ tm_mapping = MqttMatch(tm_pattern, tm_topic)

\* C12: when a step of a mapping's transform fails (a type coercion or the
\* evaluation of a formula raises), the message is not forwarded for that
\* mapping and the errors statistic grows by one
C12_TransformFailure ==
    \A k \in 1..Len(br_last.failed) :
        /\ \A i \in 1..Len(br_last.calls) :
               ~(/\ br_last.calls[i].bridge = br_last.failed[k].bridge
                 /\ br_last.calls[i].index = br_last.failed[k].index)
        /\ br_last.errors = 1

\* rule n comes before rule m in the order of evaluate_data: higher priority, or
\* equal priority and added earlier
RuleBefore(n, m) ==
    LET i == RuleIndex(rules, n) j == RuleIndex(rules, m) IN
    \/ rules[i].priority > rules[j].priority
    \/ rules[i].priority = rules[j].priority /\ i < j

\* C13: evaluate_data considers the rules in descending priority, rules of equal
\* priority in the order they were added: the rules still to be considered are
\* in that order, and a rule whose actions are running comes before all of them
C13_PriorityOrder ==
    /\ \A i, j \in 1..Len(evalq) : i < j => RuleBefore(evalq[i], evalq[j])
    /\ \A j \in 1..Len(evalq) : rstack # <<>> => RuleBefore(rstack[1].rule, evalq[j])

\* the actions of b (priority 1, added last) are running and a (priority 0,
\* added first) is still to be considered
C13_Witness ==
    /\ Len(rules) = 2 /\ rules[1].name = "a" /\ rules[2].name = "b"
    /\ rules[1].priority < rules[2].priority
    /\ rstack # <<>> /\ rstack[1].rule = "b"
    /\ evalq = <<"a">>

\* C14: chains of trigger_rule actions are cut off at nesting depth 16: no rule's
\* actions run more than 16 trigger_rule calls below the rule that was fired by
\* evaluate_data or trigger
C14_DepthBounded ==
    Len(rstack) - 1 <= 16

\* C15: the actions of a fired rule run in list order; an action whose execution
\* fails is recorded (the errors statistic grows by one), and the rule's remaining
\* actions still run unless the failing action's params have abort_on_error = true,
\* in which case the rule's run ends there
C15_ActionFailure ==
    [][rstack # <<>> =>
         LET top == rstack[Len(rstack)]
             callers == SubSeq(rstack, 1, Len(rstack) - 1)
             adv == [rstack EXCEPT ![Len(rstack)].ai = @ + 1]
         IN /\ ActionRaises(CurrentAction) => rules_errors' = rules_errors + 1
            /\ IF ActionRaises(CurrentAction) /\ CurrentAction.abort_on_error
               THEN rstack' = Unwind(callers)
               ELSE \/ rstack' = Unwind(adv)
                    \/ /\ Len(rstack') = Len(rstack) + 1
                       /\ SubSeq(rstack', 1, Len(rstack)) = adv]_vars

\* C16: on one TCP connection to the Modbus server, the i-th response written
\* answers the i-th request of the connection, and its MBAP header carries that
\* request's transaction_id and unit_id, with length = response PDU length + 1
C16_ResponsesInOrder ==
    /\ Len(mc_out) <= Len(mc_sent)
    /\ \A i \in 1..Len(mc_out) :
           /\ mc_out[i].req = mc_sent[i].pdu
           /\ mc_out[i].transaction_id = mc_sent[i].transaction_id
           /\ mc_out[i].unit_id = mc_sent[i].unit_id
           /\ mc_out[i].length = Len(mc_out[i].pdu) + 1

\* the protocol's maximum quantity per request, and the requests beyond it or
\* beyond the last address
MaxQuantity(fc) == IF fc \in {1, 2, 15} THEN 2000 ELSE 125

OverLimit(pdu) ==
    /\ Len(pdu) >= 5
    /\ pdu[1] \in {1, 2, 3, 4, 15, 16}
    /\ \/ UnpackH(pdu, 3) > MaxQuantity(pdu[1])
       \/ UnpackH(pdu, 1) + UnpackH(pdu, 3) - 1 > 65535

\* C17: a read or multiple-write request to a known unit whose quantity exceeds the
\* protocol maximum (2000 coils or discrete inputs, 125 registers) or whose address
\* range runs past 65535 is answered with the exception PDU (function code | 0x80,
\* 0x02) and is not served: the registers stay as they were
C17_OverLimitRejected ==
    [][\A pdu \in MbRequests :
          (HandleRequest(Unit, pdu) /\ Unit \in DOMAIN devices /\ OverLimit(pdu))
              => /\ mb_last'.resp = ExceptionPdu(pdu[1], 2)
                 /\ devices' = devices]_vars

\* bit b of a byte
BitOf(byte, b) == (byte \div 2 ^ b) % 2 = 1

\* ceil(q / 8)
CeilDiv8(q) == IF q % 8 = 0 THEN q \div 8 ELSE q \div 8 + 1

\* C18: for every start address and every quantity q with 1 <= q <= 2000, a bit
\* read (FC01 coils, FC02 discrete inputs) returns the function code, the byte count
\* ceil(q/8) and that many bytes, and for every i < q bit (i mod 8) of byte (i div 8)
\* is the bank's value at address start+i
C18_BitPack ==
    (bit_called /\ bit_quantity >= 1 /\ bit_quantity <= 2000) =>
        /\ Len(bit_resp) = 2 + CeilDiv8(bit_quantity)
        /\ bit_resp[1] = bit_fc
        /\ bit_resp[2] = CeilDiv8(bit_quantity)
        /\ \A i \in 0..(bit_quantity - 1) :
               BitOf(bit_resp[3 + (i \div 8)], i % 8) = BitGet(bit_bank, bit_start + i)

\* a read of discrete inputs that spans two bytes, with the bit of the second byte set
C18_Witness ==
    /\ bit_called /\ bit_fc = 2
    /\ bit_quantity > 8 /\ bit_quantity <= 2000
    /\ BitGet(bit_bank, bit_start + 8)
    /\ BitOf(bit_resp[4], 0)

\* the entries of a list
Entries(xs) == {xs[i] : i \in 1..Len(xs)}

\* the Observe option of a request has the value 0: an empty or an all-zero value
ObserveZero(obs) == obs # <<>> /\ \A i \in 1..Len(obs[1]) : obs[1][i] = 0

\* C19: a GET carrying Observe=0 on a resource adds the requester's (token, remote
\* address) to the resource's observers; a GET from the requester with another
\* Observe value or without the option removes it, and no notification is created
\* for a requester that is not among the observers
C19_ObserveRegistration ==
    [][\A path \in DOMAIN coap_observers, obs \in ObserveOptions,
          token \in CoapTokens, addr \in CoapAddrs :
          CoapGet(path, obs, token, addr) =>
              /\ IF ObserveZero(obs)
                 THEN <<token, addr>> \in Entries(coap_observers'[path])
                 ELSE <<token, addr>> \notin Entries(coap_observers'[path])
              /\ \A i \in (Len(coap_notified) + 1)..Len(coap_notified') :
                     <<coap_notified'[i][2], coap_notified'[i][3]>>
                         \in Entries(coap_observers'[coap_notified'[i][1]])]_vars

\* C20: for an enabled packet_loss fault with probability 1.0, should_modify_packet
\* returns a positive decision that carries a drop intent, on every call
C20_PacketLossDrops ==
    (/\ fi_last.fault.fault_type = "packet_loss"
     /\ fi_last.fault.enabled
     /\ fi_last.fault.probability = 100)
        => fi_last.modify /\ fi_last.details = "drop"

\* C21: whatever the interleaving of start_replay, pause_replay, resume_replay and
\* stop_replay with the replay tasks, the packets handed to on_packet during one
\* pass over the session have strictly increasing sequence numbers: none is
\* emitted twice or out of order
C21_MonotonicEmission ==
    \A i, j \in 1..Len(rp_pass) : i < j => rp_pass[i] < rp_pass[j]

\* start_replay has created the first task, in normal, fast or slow mode and
\* without looping, on a loaded session
C22_Started ==
    /\ Len(rp_tasks) = 1
    /\ rp_tasks[1].pc = "start"
    /\ rp_tasks[1].mode \in SleepModes
    /\ ~rp_tasks[1].loop
    /\ rp_session >= 1
    /\ rp_replaying
    /\ ~rp_paused

\* every packet of the session was emitted, in recorded order, and the replay ended
C22_Finished ==
    /\ rp_pass = [k \in 1..rp_session |-> k - 1]
    /\ rp_replaying = FALSE
    /\ rp_current = rp_session

\* the replay was paused or stopped, another replay was started, or another
\* session was loaded under the running task
C22_Disturbed ==
    \/ rp_paused
    \/ Len(rp_tasks) /= 1
    \/ rp_tasks[1].pc = "cancelled"
    \/ ~rp_replaying /\ rp_tasks[1].pc /= "done"
    \/ rp_tasks[1].pc /= "start" /\ rp_tasks[1].n /= rp_session

\* C22: start_replay in normal, fast or slow mode on a loaded session of n >= 1
\* packets, if the replay is not paused or stopped, eventually emits all n
\* packets in recorded order and then ends with replaying = false and
\* current_packet = n
C22_ReplayCompletes == C22_Started ~> (C22_Finished \/ C22_Disturbed)

\* C23: in step mode the replayer emits at most one packet per external step
\* signal.  The replayer has no operation that gives a step signal, so a single
\* replay in step mode, for which no signal was ever given, has emitted at most
\* the first packet
C23_StepPerSignal ==
    (Len(rp_tasks) = 1 /\ rp_tasks[1].mode = "step") => Len(rp_emitted) <= 1

\* C24: the number of messages waiting in the bridge's message queue never
\* exceeds a fixed bound: a publish on a full queue blocks or drops the oldest
\* message.  A bound that the publishes made can reach is below their number,
\* so the queue never holds all of MaxPublished published messages
C24_QueueBounded == Len(br_queue) < MaxPublished

\* C25: if load_mappings fails on an entry of the mapping file, the set of
\* bridges is exactly what it was before the call
C25_NoPartialLoad ==
    [][\A file \in MappingFiles :
          LoadMappings(file) /\ LoadRaises(file) => br_bridges' = br_bridges]_vars

\* C26: after an accepted CONNECT with client id c, a SUBSCRIBE on the same
\* connection records subscriptions[filter] = qos, for each of its (filter, qos)
\* pairs, in the broker's session for c
C26_SubscribeRecorded ==
    [][\A conn \in ConnIds, pkt \in MqPackets :
          (pkt.type = 8 /\ mq_session[conn] # "" /\ MqPacket(conn, pkt)) =>
              /\ mq_session[conn] \in DOMAIN mq_clients'
              /\ \A i \in 1..Len(pkt.subs) :
                    /\ pkt.subs[i].filter \in DOMAIN mq_clients'[mq_session[conn]]
                    /\ mq_clients'[mq_session[conn]][pkt.subs[i].filter] = pkt.subs[i].qos]_vars

\* C27: when a client connection ends the broker closes it and decrements the
\* count of active connections: active_connections always equals the number of
\* connected clients, the open connections that have sent CONNECT
C27_ActiveCount == mq_active = Cardinality(mq_conns \cap mq_connected)

\* C28: at the end of the schedule start_test returns the test id, and the
\* stored result has end_time set and total, successful and failed requests,
\* requests and errors per second, and min, avg, max, p95 and p99 latency
\* computed over all samples
C28_ResultComplete ==
    [][EndOfSchedule =>
          /\ lt_phase' = "returned"
          /\ lt_result'.end_time = "set"
          /\ lt_result'.total_requests = Len(lt_times)
          /\ lt_ok + lt_failed = Len(lt_times)
          /\ lt_result' = [TimeMetrics(lt_result', lt_times) EXCEPT !.end_time = "set"]]_vars

\* the packet passes every non-empty filter list: protocol, port, address
\* (source or destination) and keyword (one of the keywords occurs in info)
C29_PassesEvery(f, p) ==
    /\ f.protocols # {} => p.protocol \in f.protocols
    /\ f.ports # {} => p.destination_port \in f.ports
    /\ f.addresses # {} => (p.source \in f.addresses \/ p.destination \in f.addresses)
    /\ f.keywords # {} => f.keywords \cap p.info # {}

\* C29: while the capturer is running, capture_packet stores a packet if and
\* only if it passes every non-empty filter list; a packet that fails a filter
\* leaves the buffer, the packet counter and the statistics unchanged
C29_StoredIffPasses ==
    [][\A p \in CapInputs :
          (cap_running /\ CapturePacket(p)) =>
              IF C29_PassesEvery(cap_filters, p)
              THEN /\ cap_counter' = cap_counter + 1
                   /\ Len(cap_stored') = Len(cap_stored) + 1
                   /\ cap_stored'[Len(cap_stored')].info = p.info
              ELSE UNCHANGED <<cap_packets, cap_counter, cap_total, cap_stored>>]_vars

\* the device instance lies within the range of the Who-Is; always when the
\* request has no range, and a limit that is absent does not restrict
C30_InRange(d, req) ==
    \/ ~req.ranged
    \/ /\ req.low = NoLimit \/ req.low <= d
       /\ req.high = NoLimit \/ d <= req.high

\* the I-Am identifies device d: its id and its vendor id
C30_Identifies(r, d, devs) ==
    /\ "device_id" \in DOMAIN r
    /\ r.device_id = d
    /\ r.vendor_identifier = devs[d]

\* C30: for every Who-Is the server answers I-Am for a device exactly when the
\* device's instance lies within the range of the request (always when there
\* is no range), the I-Am identifies the device's id and vendor id, and a
\* Who-Is with a range never makes the handler fail
C30_WhoIsAnswered ==
    [][\A req \in WhoIsRequests :
          HandleWhoIs(req) =>
              /\ bn_last'.outcome # "raised"
              /\ \A d \in DOMAIN bn_devices :
                    C30_InRange(d, req) <=>
                        \E i \in 1..Len(bn_last'.responses) :
                            C30_Identifies(bn_last'.responses[i], d, bn_devices)]_vars

\* the standard truth value of an operator on a field value
C31_Standard(op, fv, value, second) ==
    CASE op = "eq" -> fv = value
      [] op = "ne" -> fv # value
      [] op = "gt" -> fv # NoneValue /\ fv > value
      [] op = "lt" -> fv # NoneValue /\ fv < value
      [] op = "gte" -> fv # NoneValue /\ fv >= value
      [] op = "lte" -> fv # NoneValue /\ fv <= value
      [] op = "in" -> fv \in value
      [] op = "not_in" -> fv \notin value
      [] op = "contains" -> IsSubstring(StrOf(value), StrOf(fv))
      [] op = "not_contains" -> ~IsSubstring(StrOf(value), StrOf(fv))
      [] op = "starts_with" ->
            Len(StrOf(value)) <= Len(StrOf(fv))
            /\ SubSeq(StrOf(fv), 1, Len(StrOf(value))) = StrOf(value)
      [] op = "ends_with" ->
            Len(StrOf(value)) <= Len(StrOf(fv))
            /\ SubSeq(StrOf(fv), Len(StrOf(fv)) - Len(StrOf(value)) + 1, Len(StrOf(fv)))
               = StrOf(value)
      [] op = "between" -> fv # NoneValue /\ value <= fv /\ fv <= second
      [] op = "is_null" -> fv = NoneValue
      [] op = "is_not_null" -> fv # NoneValue

\* C31: for each operator Condition.evaluate returns the operator's standard
\* truth value on the resolved field value
C31_OperatorTruth ==
    ce_called => ce_result = C31_Standard(ce_op, ce_field, ce_value, ce_second)

\* C32: a rule that is under cooldown is skipped by evaluate_data before any of
\* its conditions is evaluated: Condition.evaluate is not called for it and its
\* trigger_count and last_triggered stay unchanged
C32_CooldownSkips ==
    [][(/\ evalq # <<>>
        /\ rules[RuleIndex(rules, Head(evalq))].enabled
        /\ UnderCooldown(rules[RuleIndex(rules, Head(evalq))], now)
        /\ EvalStep)
       => LET i == RuleIndex(rules, Head(evalq))
          IN /\ ~last_eval'.conditions
             /\ rules'[i].trigger_count = rules[i].trigger_count
             /\ rules'[i].last_triggered = rules[i].last_triggered]_vars

\* evaluate_data has just skipped a rule with conditions that is under cooldown
C32_Witness ==
    /\ last_eval.cooldown
    /\ last_eval.rule = "b"
    /\ rules[RuleIndex(rules, "b")].conditions # <<>>
    /\ rules[RuleIndex(rules, "b")].trigger_count > 0

\* C33: if a handler calls unsubscribe or subscribe while an event is being
\* delivered, the delivery still reaches every other handler that was
\* subscribed to the event's type when delivery began, exactly once for each
\* of its subscriptions, and the publish call does not raise
C33_DeliveryUnaffected ==
    eb_touched # {} =>
        /\ ~eb_raised
        /\ ~eb_delivering =>
              \A h \in Handlers \ eb_touched :
                  Occurrences(eb_invoked, h) = Occurrences(eb_expected, h)

\* a response PDU that is an exception response: function code | 0x80
IsExceptionResponse(resp) == resp # <<>> /\ resp[1] >= 128

C35_ExceptionLeavesBanks ==
    [][((\E pdu \in MbRequests : HandleRequest(Unit, pdu))
           /\ IsExceptionResponse(mb_last'.resp))
          => /\ devices' = devices
             /\ dev_coils' = dev_coils
             /\ dev_inputs' = dev_inputs]_vars

\* C36: in every reachable state of the fault injector the internal active set
\* is the set of the ids of the registered faults whose enabled flag is true
C36_ActiveSetMatches ==
    fi_active = {id \in DOMAIN fi_faults : fi_faults[id].enabled}

\* C37: the active_connections statistic equals the number of entries of the
\* connections table, whatever the interleaving of connects, disconnects,
\* close_connection(id) and stop()
C37_ActiveMatchesTable ==
    tcp_active = Cardinality(tcp_connections)

\* C38: the number of virtual user tasks still running equals the length of
\* the user list: whenever a schedule lowers the user count (the cool down of
\* a spike or burst test, a smaller count given to _spawn_users), every user
\* removed from the list is cancelled
C38_UsersAreTasks ==
    lt_tasks = lt_users

\* C39: on_complete is invoked only after the last packet of the session has
\* been emitted, and never because of pause_replay or stop_replay: the loop
\* that calls it has run through all the packets of its session and was not
\* paused
C39_CompleteAfterLastPacket ==
    [][rp_completed' > rp_completed
          => /\ rp_current = rp_tasks[rp_active].n
             /\ ~rp_paused]_vars

\* C40: routing a message leaves the published payload as it was: the data
\* forwarded for a mapping is that mapping's transform applied to the payload
\* as published, whatever the transforms of the mappings before it
C40_TransformOfPublished ==
    \A i \in 1..Len(br_last.calls) :
        br_last.calls[i].data
            = TransformData(br_last.msg.data, br_last.calls[i].mapping.transform).data

====
